---- MODULE Spec2Model ----
(***************************************************************************)
(* Model of the configuration store (ConfigurationManager) and the retry   *)
(* executor (with_retry) of "ML Demo/config_utils.py".                     *)
(*                                                                         *)
(* Python values are tagged records: None, strings, numbers, booleans and  *)
(* dicts (a dict is a function from its keys to values).  A file on disk   *)
(* is missing, malformed (json.load raises) or holds one JSON value.       *)
(***************************************************************************)
EXTENDS Integers, Sequences, FiniteSets, TLC

VARIABLES
    config_file,        \* content of config.json on disk
    settings_file,      \* content of local.settings.json on disk
    config,             \* self.config
    settings,           \* self.settings
    last_refresh_time,  \* self.last_refresh_time
    refresh_interval,   \* self.refresh_interval
    now,                \* time.time()
    last,               \* the most recent completed call: arguments and outcome
    written,            \* what the last update_service_settings that wrote the
                        \* document put in it, while nobody else has edited it
    retry,              \* the with_retry execution in progress (its locals)
    environ,            \* os.environ of the process
    threads,            \* each thread's position inside refresh_config
    reloads,            \* clock readings of the most recent reloads
    consumer,           \* Consumer.py: its module globals and its responses
    producer,           \* Producer.py: the last upload and the messages sent
    supervisor,         \* Consumer.py: the consumer thread and its monitor
    deleter,            \* delete_services.py: the listing and the deletion loop
    manager,            \* manage.py: the command run and what it spawned
    uploader            \* function_app.py: store_training_data's upload loop

storeVars == <<config_file, settings_file, config, settings,
               last_refresh_time, refresh_interval>>
scriptVars == <<supervisor, deleter, manager, uploader>>
appVars == <<environ, threads, reloads, consumer, producer, scriptVars>>
vars == <<config_file, settings_file, config, settings,
          last_refresh_time, refresh_interval, now, last, written, retry,
          environ, threads, reloads, consumer, producer,
          supervisor, deleter, manager, uploader>>

----------------------------------------------------------------------------
(* Python / JSON values *)

PyNone == [t |-> "none"]
Str(s) == [t |-> "str", v |-> s]
Num(n) == [t |-> "num", v |-> n]
Bool(b) == [t |-> "bool", v |-> b]
Dict(f) == [t |-> "dict", m |-> f]
EmptyDict == Dict(<< >>)

IsDict(x) == x.t = "dict"

\* Python truthiness of a value (bool(x)).
Truthy(x) ==
    CASE x.t = "none" -> FALSE
      [] x.t = "str" -> x.v # ""
      [] x.t = "num" -> x.v # 0
      [] x.t = "bool" -> x.v
      [] x.t = "dict" -> DOMAIN x.m # {}

\* dict.get(key, default) on a value known to be a dict.
DictGet(d, key, default) == IF key \in DOMAIN d.m THEN d.m[key] ELSE default

\* d[key] = value on a dict (insert or overwrite).
DictSet(d, key, value) ==
    Dict([k \in DOMAIN d.m \cup {key} |-> IF k = key THEN value ELSE d.m[k]])

(* Files *)

Missing == [kind |-> "missing"]
Malformed == [kind |-> "malformed"]
Json(doc) == [kind |-> "json", doc |-> doc]

\* os.path.exists(path)
Exists(file) == file.kind # "missing"

----------------------------------------------------------------------------
(* Time *)

refresh_interval_default == 60
StartTime == 100
MaxElapsed == 122
TickSteps == {refresh_interval_default, refresh_interval_default + 1}

----------------------------------------------------------------------------
(* ConfigurationManager: loading *)

\* _load_config: the new self.config.  A missing file logs a warning, a
\* malformed one raises inside the try and is logged; both leave self.config.
_load_config(file, cur) ==
    IF Exists(file)
    THEN IF file.kind = "json" THEN file.doc ELSE cur
    ELSE cur

\* _load_settings with a reset of the snapshot when the document cannot be read.
_load_settings_reset(file, cur) ==
    IF Exists(file) /\ file.kind = "json" /\ IsDict(file.doc)
    THEN DictGet(file.doc, "Values", EmptyDict)
    ELSE EmptyDict

\* _load_settings: the new self.settings.  settings_data.get raises
\* AttributeError (caught) when the document is not a dict.
_load_settings(file, cur) ==
    IF Exists(file)
    THEN IF file.kind = "json" /\ IsDict(file.doc)
         THEN DictGet(file.doc, "Values", EmptyDict)
         ELSE cur
    ELSE cur

\* What _load_config logs: "loaded" (info), "not_found" (warning) or "error"
\* (the except branch).
config_load_log(file) ==
    IF Exists(file)
    THEN IF file.kind = "json" THEN "loaded" ELSE "error"
    ELSE "not_found"

\* What _load_settings logs.
settings_load_log(file) ==
    IF Exists(file)
    THEN IF file.kind = "json" /\ IsDict(file.doc) THEN "loaded" ELSE "error"
    ELSE "not_found"

\* The test of refresh_config with an interval of 0 forcing the reload.
should_reload_zero(current_time, last_time, interval) ==
    interval = 0 \/ current_time - last_time > interval

\* The test of refresh_config with >= for >.
should_reload_ge(current_time, last_time, interval) ==
    current_time - last_time >= interval

\* The test of refresh_config: current_time - last_refresh_time > refresh_interval
should_reload(current_time, last_time, interval) ==
    current_time - last_time > interval

\* refresh_config with the timestamp kept when a document could not be read.
refresh_config_success_only(s, cfile, sfile, interval, current_time) ==
    IF should_reload(current_time, s.last_refresh_time, interval)
    THEN [config |-> _load_config(cfile, s.config),
          settings |-> _load_settings(sfile, s.settings),
          last_refresh_time |->
              IF config_load_log(cfile) = "loaded" /\ settings_load_log(sfile) = "loaded"
              THEN current_time ELSE s.last_refresh_time]
    ELSE s

\* refresh_config as a function of the store: the store after the call.
\* s is a record [config, settings, last_refresh_time].
refresh_config(s, cfile, sfile, interval, current_time) ==
    IF should_reload(current_time, s.last_refresh_time, interval)
    THEN [config |-> _load_config(cfile, s.config),
          settings |-> _load_settings(sfile, s.settings),
          last_refresh_time |-> current_time]
    ELSE s

Store == [config |-> config, settings |-> settings,
          last_refresh_time |-> last_refresh_time]

Refreshed == refresh_config(Store, config_file, settings_file, refresh_interval, now)

\* Whether the refresh step of the current call re-reads the documents.
Reloads == should_reload(now, last_refresh_time, refresh_interval)

SetStore(s) ==
    /\ config' = s.config
    /\ settings' = s.settings
    /\ last_refresh_time' = s.last_refresh_time

----------------------------------------------------------------------------
(* ConfigurationManager: lookups *)

\* get_setting with self.settings[key] for self.settings.get(key, default).
settings_get_index(snapshot, key, default) ==
    IF IsDict(snapshot) /\ key \in DOMAIN snapshot.m
    THEN [raised |-> FALSE, result |-> snapshot.m[key]]
    ELSE [raised |-> TRUE, result |-> PyNone]

\* get_setting with a non-empty environment variable of the same name
\* preferred to the snapshot.
settings_get_environ(snapshot, key, default) ==
    IF key \in DOMAIN environ /\ environ[key] # ""
    THEN [raised |-> FALSE, result |-> Str(environ[key])]
    ELSE IF IsDict(snapshot)
         THEN [raised |-> FALSE, result |-> DictGet(snapshot, key, default)]
         ELSE [raised |-> TRUE, result |-> PyNone]

\* get_setting after the refresh: self.settings.get(key, default).  The
\* attribute lookup raises AttributeError when self.settings is not a dict.
settings_get(snapshot, key, default) ==
    IF IsDict(snapshot)
    THEN [raised |-> FALSE, result |-> DictGet(snapshot, key, default)]
    ELSE [raised |-> TRUE, result |-> PyNone]

\* get_config returning the node reached so far in place of default.
RECURSIVE config_walk_partial(_, _, _)
config_walk_partial(value, keys, default) ==
    IF keys = << >>
    THEN value
    ELSE IF IsDict(value) /\ Head(keys) \in DOMAIN value.m
         THEN config_walk_partial(value.m[Head(keys)], Tail(keys), default)
         ELSE value

\* The loop of get_config: walk value by the remaining keys.
RECURSIVE config_walk(_, _, _)
config_walk(value, keys, default) ==
    IF keys = << >>
    THEN value
    ELSE IF IsDict(value) /\ Head(keys) \in DOMAIN value.m
         THEN config_walk(value.m[Head(keys)], Tail(keys), default)
         ELSE default

\* validate_required_settings testing absence alone.
RECURSIVE missing_keys_absent(_, _)
missing_keys_absent(snapshot, required_keys) ==
    IF required_keys = << >>
    THEN << >>
    ELSE LET key == Head(required_keys)
             rest == missing_keys_absent(snapshot, Tail(required_keys))
         IN IF key \notin DOMAIN snapshot.m THEN <<key>> \o rest ELSE rest

\* The loop of validate_required_settings: missing_keys after the remaining
\* required_keys, in order.
RECURSIVE missing_keys(_, _)
missing_keys(snapshot, required_keys) ==
    IF required_keys = << >>
    THEN << >>
    ELSE LET key == Head(required_keys)
             rest == missing_keys(snapshot, Tail(required_keys))
         IN IF key \notin DOMAIN snapshot.m \/ ~Truthy(snapshot.m[key])
            THEN <<key>> \o rest
            ELSE rest

----------------------------------------------------------------------------
(* ConfigurationManager: update_service_settings *)

WS == "AZURE_ML_WORKSPACE_NAME"
SA == "AZURE_STORAGE_ACCOUNT"
CS == "AZURE_BLOB_STORAGE_CONNECTION_STRING"
CN == "AZURE_BLOB_CONTAINER_NAME"
WJ == "AzureWebJobsStorage"
EH == "EventHubConnectionString"
PE == "AZURE_ML_PREDICTION_ENDPOINT"

\* The five assignments the call always makes.
fixed_values(ml_workspace_name, storage_account) ==
    (WS :> ml_workspace_name)
    @@ (SA :> DictGet(storage_account, "name", Str("")))
    @@ (CS :> DictGet(storage_account, "connection_string", Str("")))
    @@ (CN :> DictGet(storage_account, "container_name", Str("")))
    @@ (WJ :> DictGet(storage_account, "connection_string", Str("")))

\* The endpoints loop without its `if value` test.
endpoint_values_all(endpoints) == endpoints.m

\* The endpoints loop: the assignments it makes (only non-empty values).
endpoint_values(endpoints) ==
    [k \in {e \in DOMAIN endpoints.m : Truthy(endpoints.m[e])} |-> endpoints.m[k]]

\* Everything the call assigns into values, the endpoints last.
assigned_values(ml_workspace_name, storage_account, endpoints) ==
    endpoint_values(endpoints) @@ fixed_values(ml_workspace_name, storage_account)

\* The reload after the write left out.
reload_after_write_skipped(file, cur) == cur

\* self._load_settings() after the write.
reload_after_write(file, cur) == _load_settings(file, cur)

\* The except branch of update_service_settings: it logs and returns.
update_failure_swallowed == FALSE

\* update_service_settings as a function of the file and the snapshot.  io is
\* what the write does: "ok", "open_fails" (open(..., "w") raises, the file is
\* untouched) or "dump_fails" (json.dump raises after open truncated the file).
update_service_settings(file, cur, ml_workspace_name, storage_account, endpoints, io) ==
    LET failure(f) == [file |-> f, settings |-> cur, failed |-> TRUE, wrote |-> FALSE,
                       raised |-> update_failure_swallowed, assigned |-> << >>,
                       settings_load |-> "skipped"]
    IN IF Exists(file) /\ file.kind # "json"
       THEN failure(file)                       \* json.load raises
       ELSE LET settings_data ==
                    IF Exists(file) THEN file.doc
                    ELSE Dict(("IsEncrypted" :> Bool(FALSE)) @@ ("Values" :> EmptyDict))
            IN IF ~IsDict(settings_data)
               THEN failure(file)               \* settings_data.get raises
               ELSE LET values == DictGet(settings_data, "Values", EmptyDict)
                    IN IF ~IsDict(values)
                       THEN failure(file)       \* item assignment raises
                       ELSE LET assigned == assigned_values(ml_workspace_name,
                                                            storage_account, endpoints)
                                new == Json(DictSet(settings_data, "Values",
                                                    Dict(assigned @@ values.m)))
                            IN CASE io = "open_fails" -> failure(file)
                                 [] io = "dump_fails" -> failure(Malformed)
                                 [] io = "ok" ->
                                      [file |-> new,
                                       settings |-> reload_after_write(new, cur),
                                       failed |-> FALSE, wrote |-> TRUE,
                                       raised |-> FALSE, assigned |-> assigned,
                                       settings_load |-> settings_load_log(new)]

----------------------------------------------------------------------------
(* Documents the files are drawn from *)

RetryPolicy(n, i, m, b) ==
    Dict([k \in {"max_attempts", "initial_delay", "max_delay", "exponential_base"} |->
            CASE k = "max_attempts" -> Num(n)
              [] k = "initial_delay" -> Num(i)
              [] k = "max_delay" -> Num(m)
              [] k = "exponential_base" -> Num(b)])

\* {"x": {"y": "z"}}
ConfigXY == Dict("x" :> Dict("y" :> Str("z")))
\* {"azure": {"retry_policy": {...}, "resources": "none"}, "x": "flat"}
ConfigAzure ==
    Dict(("azure" :> Dict(("retry_policy" :> RetryPolicy(2, 1, 30, 2))
                          @@ ("resources" :> Str("none"))))
         @@ ("x" :> Str("flat")))

ConfigFiles ==
    {Missing, Malformed, Json(ConfigXY), Json(ConfigAzure), Json(Str("text"))}

\* {"IsEncrypted": false, "Values": {"A": "1"}}
SettingsA == Dict(("IsEncrypted" :> Bool(FALSE)) @@ ("Values" :> Dict("A" :> Str("1"))))
\* {"Values": {"A": "", "B": "2", "C": null}}
SettingsB ==
    Dict("Values" :> Dict(("A" :> Str("")) @@ ("B" :> Str("2")) @@ ("C" :> PyNone)))
\* {"IsEncrypted": false}
SettingsNoValues == Dict("IsEncrypted" :> Bool(FALSE))

SettingsFiles ==
    {Missing, Malformed, Json(SettingsA), Json(SettingsB), Json(SettingsNoValues),
     Json(Str("text"))}

SettingKeys == {"A", "B", "C"}
Defaults == {PyNone, Str("default")}

MaxPath == 3
PathKeys == {"x", "y", "azure", "retry_policy"}
RECURSIVE SeqsUpTo(_, _)
SeqsUpTo(S, n) ==
    IF n = 0
    THEN {<< >>}
    ELSE LET shorter == SeqsUpTo(S, n - 1)
         IN shorter \cup {Append(s, e) : s \in {q \in shorter : Len(q) = n - 1}, e \in S}
\* Paths into the documents above, and past their leaves.
Paths == {p \in SeqsUpTo(PathKeys, MaxPath) :
            /\ Len(p) >= 2 => p[1] \in {"x", "azure"} /\ p[2] \in {"y", "retry_policy"}
            /\ \A i \in 3..Len(p) : p[i] \in {"y", "azure"}}

MaxManifest == 3
Manifests == SeqsUpTo(SettingKeys, MaxManifest)

----------------------------------------------------------------------------
(* The store: initial state and operations *)

\* No with_retry execution yet.
NoRetry ==
    [pc |-> "idle", max_attempts |-> 0, initial_delay |-> 0, max_delay |-> 0,
     exponential_base |-> 0, attempt |-> 0, last_exception |-> "None",
     calls |-> << >>, delays |-> << >>, slept_ms |-> 0, raised |-> "None",
     result |-> 0]

\* What the refresh step of the current call does and logs.
RefreshLog ==
    [reloaded |-> Reloads,
     config_load |-> IF Reloads THEN config_load_log(config_file) ELSE "skipped",
     settings_load |-> IF Reloads THEN settings_load_log(settings_file) ELSE "skipped"]

\* The record of a completed call: its name, whether it raised, what its
\* refresh step did, and the call's arguments and result (io).
Call(op, raised, log, io) == [op |-> op, raised |-> raised] @@ log @@ io

\* __init__: empty snapshots, last_refresh_time = 0, then refresh_config().
Constructed(cfile, sfile, current_time) ==
    refresh_config([config |-> EmptyDict, settings |-> EmptyDict, last_refresh_time |-> 0],
                   cfile, sfile, refresh_interval_default, current_time)

\* No script of the repository is running.
ScriptsIdle ==
    /\ supervisor = << >>
    /\ deleter = << >>
    /\ manager = << >>
    /\ uploader = << >>

\* The rest of the process while only the store and the retry executor are
\* exercised: an empty environment, no thread inside refresh_config, and
\* neither Flask application started.
AppIdle ==
    /\ environ = << >>
    /\ threads = << >>
    /\ reloads = << >>
    /\ consumer = << >>
    /\ producer = << >>
    /\ ScriptsIdle

StoreConstructed(cfiles, sfiles) ==
    /\ config_file \in cfiles
    /\ settings_file \in sfiles
    /\ now = StartTime
    /\ refresh_interval = refresh_interval_default
    /\ LET s == Constructed(config_file, settings_file, now)
       IN /\ config = s.config
          /\ settings = s.settings
          /\ last_refresh_time = s.last_refresh_time
    /\ last = [op |-> "__init__", raised |-> FALSE, reloaded |-> TRUE,
               config_load |-> config_load_log(config_file),
               settings_load |-> settings_load_log(settings_file)]
    /\ written = << >>
    /\ retry = NoRetry

InitStore(cfiles, sfiles) == StoreConstructed(cfiles, sfiles) /\ AppIdle

Init == InitStore(ConfigFiles, SettingsFiles)

\* The clock advances.
Tick(d) ==
    /\ now + d <= StartTime + MaxElapsed
    /\ now' = now + d
    /\ UNCHANGED <<storeVars, last, written, retry, appVars>>

\* Another process rewrites, corrupts or removes config.json.
EditConfigFile(file) ==
    /\ file # config_file
    /\ config_file' = file
    /\ UNCHANGED <<settings_file, config, settings, last_refresh_time,
                   refresh_interval, now, last, written, retry, appVars>>

\* Another process rewrites, corrupts or removes local.settings.json.
EditSettingsFile(file) ==
    /\ file # settings_file
    /\ settings_file' = file
    /\ written' = << >>
    /\ UNCHANGED <<config_file, config, settings, last_refresh_time,
                   refresh_interval, now, last, retry, appVars>>

\* A direct call of refresh_config().
RefreshConfig ==
    /\ SetStore(Refreshed)
    /\ last' = Call("refresh_config", FALSE, RefreshLog, << >>)
    /\ UNCHANGED <<config_file, settings_file, refresh_interval, now, written, retry, appVars>>

GetSetting(key, default) ==
    /\ SetStore(Refreshed)
    /\ LET r == settings_get(Refreshed.settings, key, default)
       IN last' = Call("get_setting", r.raised, RefreshLog,
                       [key |-> key, default |-> default, result |-> r.result])
    /\ UNCHANGED <<config_file, settings_file, refresh_interval, now, written, retry, appVars>>

GetConfig(keys, default) ==
    /\ SetStore(Refreshed)
    /\ last' = Call("get_config", FALSE, RefreshLog,
                    [keys |-> keys, default |-> default,
                     result |-> config_walk(Refreshed.config, keys, default)])
    /\ UNCHANGED <<config_file, settings_file, refresh_interval, now, written, retry, appVars>>

\* `key not in self.settings` raises only when the snapshot is not a dict.
ValidateRequiredSettings(required_keys) ==
    /\ SetStore(Refreshed)
    /\ last' = IF IsDict(Refreshed.settings)
               THEN Call("validate_required_settings", FALSE, RefreshLog,
                         [required_keys |-> required_keys,
                          result |-> missing_keys(Refreshed.settings, required_keys)])
               ELSE Call("validate_required_settings", TRUE, RefreshLog,
                         [required_keys |-> required_keys, result |-> << >>])
    /\ UNCHANGED <<config_file, settings_file, refresh_interval, now, written, retry, appVars>>

\* The store under refresh_config and get_setting, with both files edited
\* from outside and the clock advancing.
Next ==
    \/ \E d \in TickSteps : Tick(d)
    \/ \E f \in ConfigFiles : EditConfigFile(f)
    \/ \E f \in SettingsFiles : EditSettingsFile(f)
    \/ RefreshConfig
    \/ \E k \in SettingKeys, d \in Defaults : GetSetting(k, d)

Spec == Init /\ [][Next]_vars

\* get_config over every defaults document and path.
InitConfig == InitStore(ConfigFiles, {Missing})

NextConfig ==
    \/ \E d \in TickSteps : Tick(d)
    \/ \E f \in ConfigFiles : EditConfigFile(f)
    \/ \E p \in Paths, d \in Defaults : GetConfig(p, d)

SpecConfig == InitConfig /\ [][NextConfig]_vars

\* validate_required_settings over every runtime-values document and manifest.
ValidateSettingsFiles == {Missing, Malformed, Json(SettingsA), Json(SettingsB)}

InitValidate == InitStore({Missing}, ValidateSettingsFiles)

NextValidate ==
    \/ \E d \in TickSteps : Tick(d)
    \/ \E f \in ValidateSettingsFiles : EditSettingsFile(f)
    \/ \E m \in Manifests : ValidateRequiredSettings(m)

SpecValidate == InitValidate /\ [][NextValidate]_vars

UpdateServiceSettings(ml_workspace_name, storage_account, endpoints, io) ==
    LET u == update_service_settings(settings_file, settings, ml_workspace_name,
                                     storage_account, endpoints, io)
    IN /\ settings_file' = u.file
       /\ settings' = u.settings
       /\ written' = IF u.wrote THEN u.assigned
                     ELSE IF u.file = settings_file THEN written ELSE << >>
       /\ last' = Call("update_service_settings", u.raised,
                       [reloaded |-> FALSE, config_load |-> "skipped",
                        settings_load |-> u.settings_load],
                       [failed |-> u.failed, wrote |-> u.wrote,
                        ml_workspace_name |-> ml_workspace_name,
                        storage_account |-> storage_account,
                        endpoints |-> endpoints, io |-> io])
       /\ UNCHANGED <<config_file, config, last_refresh_time, refresh_interval,
                      now, retry, appVars>>

\* {"IsEncrypted": false, "Values": {WS: "ws0", EH: "eh0"}}
SettingsLive ==
    Dict(("IsEncrypted" :> Bool(FALSE))
         @@ ("Values" :> Dict((WS :> Str("ws0")) @@ (EH :> Str("eh0")))))

LiveSettingsFiles ==
    {Missing, Malformed, Json(SettingsLive), Json(SettingsNoValues), Json(Str("text"))}

WorkspaceNames == {Str("ws1")}
StorageAccounts == {Dict(("name" :> Str("sa1")) @@ ("container_name" :> Str("c1")))}
EndpointMaps ==
    {EmptyDict, Dict(EH :> Str("eh1")), Dict((EH :> Str("")) @@ (PE :> Str("pe1"))),
     Dict(WS :> Str(""))}
WriteOutcomes == {"ok", "open_fails", "dump_fails"}
LiveKeys == {WS, CS, EH}

\* The store under update_service_settings and get_setting.
InitUpdate == InitStore({Missing}, LiveSettingsFiles)

NextUpdate ==
    \/ \E d \in TickSteps : Tick(d)
    \/ \E f \in LiveSettingsFiles : EditSettingsFile(f)
    \/ \E w \in WorkspaceNames, a \in StorageAccounts, e \in EndpointMaps,
          io \in WriteOutcomes : UpdateServiceSettings(w, a, e, io)
    \/ \E k \in LiveKeys : GetSetting(k, PyNone)

SpecUpdate == InitUpdate /\ [][NextUpdate]_vars

----------------------------------------------------------------------------
(* with_retry *)

\* The fallback of get_retry_policy and of the four retry_policy.get calls.
default_max_attempts == 3
default_initial_delay == 1
default_max_delay == 30
default_exponential_base == 2

DefaultPolicy ==
    RetryPolicy(default_max_attempts, default_initial_delay, default_max_delay,
                default_exponential_base)

\* get_retry_policy after the refresh.
get_retry_policy(cfg) == config_walk(cfg, <<"azure", "retry_policy">>, DefaultPolicy)

Min(a, b) == IF a <= b THEN a ELSE b

\* The delay with the exponent one too high.
backoff_delay_next(initial_delay, exponential_base, max_delay, attempt) ==
    Min(initial_delay * (exponential_base ^ attempt), max_delay)

\* delay = min(initial_delay * (exponential_base ** (attempt - 1)), max_delay)
backoff_delay(initial_delay, exponential_base, max_delay, attempt) ==
    Min(initial_delay * (exponential_base ^ (attempt - 1)), max_delay)

\* The test before the re-raise with > for >=.
exhausted_gt(attempt, max_attempts) == attempt > max_attempts

\* if attempt >= max_attempts: ... raise
exhausted(attempt, max_attempts) == attempt >= max_attempts

\* random.uniform(0, 0.1 * delay), in thousandths of the delay: both ends and
\* the middle of the interval.
JitterPermille == {0, 50, 100}

\* What an invocation of the operation does: it returns, or raises one of
\* two exception types (subclasses of Exception).
Exceptions == {"ConnectionError", "ValueError"}
Outcomes == {"ok"} \cup Exceptions

\* max_attempts, initial_delay, max_delay and exponential_base as with_retry
\* takes them from the policy: retry_policy.get(name, fallback).
policy_locals(retry_policy) ==
    [max_attempts |-> DictGet(retry_policy, "max_attempts", Num(default_max_attempts)).v,
     initial_delay |-> DictGet(retry_policy, "initial_delay", Num(default_initial_delay)).v,
     max_delay |-> DictGet(retry_policy, "max_delay", Num(default_max_delay)).v,
     exponential_base |->
         DictGet(retry_policy, "exponential_base", Num(default_exponential_base)).v]

\* with_retry up to the loop: read the policy (get_retry_policy refreshes the
\* store), attempt = 0, last_exception = None.
WithRetryStart ==
    /\ retry.pc \in {"idle", "returned", "raised"}
    /\ SetStore(Refreshed)
    /\ LET retry_policy == get_retry_policy(Refreshed.config)
       IN /\ IsDict(retry_policy)
          /\ retry' = [pc |-> "loop"] @@ policy_locals(retry_policy)
                      @@ [attempt |-> 0, last_exception |-> "None",
                          calls |-> << >>, delays |-> << >>, slept_ms |-> 0,
                          raised |-> "None", result |-> 0]
    /\ last' = Call("get_config", FALSE, RefreshLog,
                    [keys |-> <<"azure", "retry_policy">>, default |-> DefaultPolicy,
                     result |-> get_retry_policy(Refreshed.config)])
    /\ UNCHANGED <<config_file, settings_file, refresh_interval, now, written, appVars>>

\* One pass of the loop that sleeps before it returns the result too.
attempt_pass_sleep_always(r, outcome, jitter) ==
    LET delay == backoff_delay(r.initial_delay, r.exponential_base, r.max_delay,
                               r.attempt + 1)
    IN IF outcome = "ok"
       THEN [r EXCEPT !.pc = "returned", !.calls = Append(@, outcome),
                      !.delays = Append(@, delay), !.result = Len(r.calls) + 1]
       ELSE IF exhausted(r.attempt + 1, r.max_attempts)
            THEN [r EXCEPT !.pc = "raised", !.attempt = r.attempt + 1,
                           !.last_exception = outcome, !.calls = Append(@, outcome),
                           !.raised = outcome]
            ELSE [r EXCEPT !.attempt = r.attempt + 1, !.last_exception = outcome,
                           !.calls = Append(@, outcome), !.delays = Append(@, delay),
                           !.slept_ms = delay * 1000 + delay * jitter]

\* One pass of the while loop on the locals r: invoke func and return its
\* result (the result of invocation number n is n); on an exception count
\* it, then re-raise or sleep for the backoff delay plus jitter.
attempt_pass(r, outcome, jitter) ==
    IF outcome = "ok"
    THEN [r EXCEPT !.pc = "returned", !.calls = Append(@, outcome),
                   !.result = Len(r.calls) + 1]
    ELSE LET attempt == r.attempt + 1
             delay == backoff_delay(r.initial_delay, r.exponential_base,
                                    r.max_delay, attempt)
         IN IF exhausted(attempt, r.max_attempts)
            THEN [r EXCEPT !.pc = "raised", !.attempt = attempt,
                           !.last_exception = outcome,
                           !.calls = Append(@, outcome),
                           !.raised = outcome]
            ELSE [r EXCEPT !.attempt = attempt,
                           !.last_exception = outcome,
                           !.calls = Append(@, outcome),
                           !.delays = Append(@, delay),
                           !.slept_ms = delay * 1000 + delay * jitter]

\* The loop with the policy read again from the store before every pass.
WithRetryAttempt_reread(outcome, jitter) ==
    LET r == policy_locals(get_retry_policy(config)) @@ retry
    IN /\ retry.pc = "loop"
       /\ r.attempt < r.max_attempts
       /\ retry' = attempt_pass(r, outcome, jitter)
       /\ UNCHANGED <<storeVars, now, last, written, appVars>>

WithRetryAttempt(outcome, jitter) ==
    /\ retry.pc = "loop"
    /\ retry.attempt < retry.max_attempts
    /\ retry' = attempt_pass(retry, outcome, jitter)
    /\ UNCHANGED <<storeVars, now, last, written, appVars>>

\* The statement after the loop, reached when the while test fails.
WithRetryAfterLoop ==
    /\ retry.pc = "loop"
    /\ ~(retry.attempt < retry.max_attempts)
    /\ retry' = [retry EXCEPT !.pc = "raised",
                              !.raised = IF retry.last_exception # "None"
                                         THEN retry.last_exception
                                         ELSE "RuntimeError"]
    /\ UNCHANGED <<storeVars, now, last, written, appVars>>

MaxAttempts == 8

ConfigWithPolicy(policy) == Dict("azure" :> Dict("retry_policy" :> policy))

\* config.json for the retry executor: absent, or with a retry policy.
RetryConfigFiles ==
    {Missing,
     Json(ConfigWithPolicy(Dict("max_attempts" :> Num(2)))),
     Json(ConfigWithPolicy(RetryPolicy(4, 2, 5, 3)))}
    \cup {Json(ConfigWithPolicy(RetryPolicy(n, 1, 30, 2))) : n \in 0..MaxAttempts}

InitRetry == InitStore(RetryConfigFiles, {Missing})

NextRetry ==
    \/ WithRetryStart
    \/ \E o \in Outcomes, j \in JitterPermille : WithRetryAttempt(o, j)
    \/ WithRetryAfterLoop

SpecRetry == InitRetry /\ [][NextRetry]_vars

----------------------------------------------------------------------------
(* ConfigurationManager.get_service_endpoints *)

TE == "AZURE_ML_TRAINING_ENDPOINT"
AH == "ALPHABET_EVENT_HUB"
PH == "PREDICTIONS_EVENT_HUB"

DigitChar == <<"0", "1", "2", "3", "4", "5", "6", "7", "8", "9">>

RECURSIVE Digits(_)
Digits(n) == IF n < 10 THEN DigitChar[n + 1] ELSE Digits(n \div 10) \o DigitChar[(n % 10) + 1]

\* What an f-string puts in place of {x}: str(x).
format_value(x) ==
    CASE x.t = "str" -> x.v
      [] x.t = "none" -> "None"
      [] x.t = "bool" -> IF x.v THEN "True" ELSE "False"
      [] x.t = "num" -> Digits(x.v)

EndpointsPath == <<"azure", "resources", "ml_workspace", "endpoints">>

\* self.get_config("azure", "resources", "ml_workspace", "endpoints", kind,
\*                 field, default=fallback)
endpoint_config(cfg, kind, field, fallback) ==
    config_walk(cfg, EndpointsPath \o <<kind, field>>, Str(fallback))

prediction_url(ml_workspace_name, cfg) ==
    Str("https://" \o format_value(ml_workspace_name) \o "."
        \o format_value(endpoint_config(cfg, "prediction", "region", "eastus"))
        \o ".inference.azureml.net/"
        \o format_value(endpoint_config(cfg, "prediction", "path", "score")))

training_url(ml_workspace_name, cfg) ==
    Str("https://" \o format_value(ml_workspace_name) \o "."
        \o format_value(endpoint_config(cfg, "training", "region", "eastus"))
        \o ".training.azureml.net/"
        \o format_value(endpoint_config(cfg, "training", "path", "train")))

\* The two URLs built without the `if ml_workspace_name` test.
ml_endpoints_unguarded(snapshot, cfg) ==
    LET ml_workspace_name == DictGet(snapshot, WS, Str(""))
    IN (PE :> prediction_url(ml_workspace_name, cfg))
       @@ (TE :> training_url(ml_workspace_name, cfg))

\* The two URLs with a stored endpoint preferred to the built one.
ml_endpoints_stored_first(snapshot, cfg) ==
    LET ml_workspace_name == DictGet(snapshot, WS, Str(""))
    IN IF Truthy(ml_workspace_name)
       THEN (PE :> IF PE \in DOMAIN snapshot.m THEN snapshot.m[PE]
                   ELSE prediction_url(ml_workspace_name, cfg))
            @@ (TE :> IF TE \in DOMAIN snapshot.m THEN snapshot.m[TE]
                      ELSE training_url(ml_workspace_name, cfg))
       ELSE << >>

\* endpoints = {}; if ml_workspace_name: the two URLs are built from the
\* workspace name and the region and path of the defaults document.
ml_endpoints(snapshot, cfg) ==
    LET ml_workspace_name == DictGet(snapshot, WS, Str(""))
    IN IF Truthy(ml_workspace_name)
       THEN (PE :> prediction_url(ml_workspace_name, cfg))
            @@ (TE :> training_url(ml_workspace_name, cfg))
       ELSE << >>

\* The three entries copied from the runtime values.
hub_endpoints(snapshot) ==
    (EH :> DictGet(snapshot, EH, Str("")))
    @@ (AH :> DictGet(snapshot, AH, Str("")))
    @@ (PH :> DictGet(snapshot, PH, Str("")))

\* get_service_endpoints after its refresh.  self.settings.get raises
\* AttributeError when the snapshot is not a dict.
get_service_endpoints(snapshot, cfg) ==
    IF IsDict(snapshot)
    THEN [raised |-> FALSE,
          result |-> Dict(hub_endpoints(snapshot) @@ ml_endpoints(snapshot, cfg))]
    ELSE [raised |-> TRUE, result |-> PyNone]

\* The refresh at the head of the method is followed by one in each of the
\* four get_config calls, all at the same clock reading: the first one sets
\* last_refresh_time to that reading, so the others reload nothing.
GetServiceEndpoints ==
    /\ SetStore(Refreshed)
    /\ LET r == get_service_endpoints(Refreshed.settings, Refreshed.config)
       IN last' = Call("get_service_endpoints", r.raised, RefreshLog,
                       [result |-> r.result])
    /\ UNCHANGED <<config_file, settings_file, refresh_interval, now, written, retry, appVars>>

ConfigEndpoints(prediction, training) ==
    Dict("azure" :> Dict("resources" :> Dict("ml_workspace" :> Dict("endpoints" :>
        Dict(("prediction" :> prediction) @@ ("training" :> training))))))

\* config.json: absent; without an endpoints section; with both regions and
\* one path; with a null region and a numeric path.
EndpointConfigFiles ==
    {Missing,
     Json(ConfigAzure),
     Json(ConfigEndpoints(Dict(("region" :> Str("westus")) @@ ("path" :> Str("predict"))),
                          Dict("region" :> Str("westeurope")))),
     Json(ConfigEndpoints(Dict(("region" :> PyNone) @@ ("path" :> Num(12))),
                          Str("none")))}

SettingsValues(values) == Dict(("IsEncrypted" :> Bool(FALSE)) @@ ("Values" :> Dict(values)))

\* local.settings.json: absent; with a workspace name and the hub entries;
\* with an empty, a null and no workspace name; with stored endpoint URLs.
EndpointSettingsFiles ==
    {Missing,
     Json(SettingsValues((WS :> Str("ws1")) @@ (EH :> Str("Endpoint=sb://eh0"))
                         @@ (AH :> Str("alphabet")))),
     Json(SettingsValues((WS :> Str("")) @@ (PH :> Str("predictions")))),
     Json(SettingsValues(WS :> PyNone)),
     Json(SettingsValues(EH :> Str("Endpoint=sb://eh0"))),
     Json(SettingsValues((WS :> Str("ws2")) @@ (PE :> Str("https://stored/score"))
                         @@ (TE :> Str("https://stored/train")))),
     Json(SettingsValues(PE :> Str("https://stored/score")))}

InitEndpoints == InitStore(EndpointConfigFiles, EndpointSettingsFiles)

NextEndpoints ==
    \/ \E d \in TickSteps : Tick(d)
    \/ \E f \in EndpointConfigFiles : EditConfigFile(f)
    \/ \E f \in EndpointSettingsFiles : EditSettingsFile(f)
    \/ GetServiceEndpoints

SpecEndpoints == InitEndpoints /\ [][NextEndpoints]_vars

----------------------------------------------------------------------------
(* get_setting in a process with environment variables *)

\* os.environ: empty, or holding a variable named like a setting.
Environs ==
    {<< >>, "A" :> "fromenv", "A" :> "", "B" :> "fromenv", "C" :> "fromenv"}

InitEnviron ==
    /\ StoreConstructed({Missing}, {Missing, Json(SettingsA), Json(SettingsB)})
    /\ environ \in Environs
    /\ threads = << >> /\ reloads = << >> /\ consumer = << >> /\ producer = << >>
    /\ ScriptsIdle

NextEnviron ==
    \/ \E d \in TickSteps : Tick(d)
    \/ \E f \in {Missing, Json(SettingsA), Json(SettingsB)} : EditSettingsFile(f)
    \/ \E k \in SettingKeys, d \in Defaults : GetSetting(k, d)

SpecEnviron == InitEnviron /\ [][NextEnviron]_vars

----------------------------------------------------------------------------
(* refresh_config called from two threads (Consumer.py) *)

\* The consumer thread reads its settings through get_setting and the
\* monitor thread calls refresh_config in its loop.
Threads == {"consumer", "monitor"}

\* The two most recent reloads, each by the clock reading its test used.
Reloaded(current_time) ==
    IF Len(reloads) < 2 THEN Append(reloads, current_time)
    ELSE <<reloads[2], current_time>>

\* current_time = time.time() and the test of the if statement.
RefreshEnter(t) ==
    /\ threads[t].pc = "idle"
    /\ threads' = [threads EXCEPT ![t] =
                      [pc |-> IF should_reload(now, last_refresh_time, refresh_interval)
                              THEN "load_config" ELSE "idle",
                       current_time |-> now]]
    /\ UNCHANGED <<storeVars, now, last, written, retry, environ, reloads,
                   consumer, producer, scriptVars>>

\* self._load_config()
LoadConfigStep(t) ==
    /\ threads[t].pc = "load_config"
    /\ config' = _load_config(config_file, config)
    /\ reloads' = Reloaded(threads[t].current_time)
    /\ threads' = [threads EXCEPT ![t].pc = "load_settings"]
    /\ UNCHANGED <<config_file, settings_file, settings, last_refresh_time,
                   refresh_interval, now, last, written, retry, environ,
                   consumer, producer, scriptVars>>

\* self._load_settings()
LoadSettingsStep(t) ==
    /\ threads[t].pc = "load_settings"
    /\ settings' = _load_settings(settings_file, settings)
    /\ threads' = [threads EXCEPT ![t].pc = "set_time"]
    /\ UNCHANGED <<config_file, settings_file, config, last_refresh_time,
                   refresh_interval, now, last, written, retry, environ, reloads,
                   consumer, producer, scriptVars>>

\* self.last_refresh_time = current_time
SetTimeStep(t) ==
    /\ threads[t].pc = "set_time"
    /\ last_refresh_time' = threads[t].current_time
    /\ threads' = [threads EXCEPT ![t].pc = "idle"]
    /\ UNCHANGED <<config_file, settings_file, config, settings,
                   refresh_interval, now, last, written, retry, environ, reloads,
                   consumer, producer, scriptVars>>

InitThreads ==
    /\ StoreConstructed({Missing, Json(ConfigXY)}, {Json(SettingsA), Json(SettingsB)})
    /\ threads = [t \in Threads |-> [pc |-> "idle", current_time |-> now]]
    /\ reloads = <<now>>
    /\ environ = << >> /\ consumer = << >> /\ producer = << >>
    /\ ScriptsIdle

NextThreads ==
    \/ \E d \in TickSteps : Tick(d)
    \/ \E f \in {Json(SettingsA), Json(SettingsB)} : EditSettingsFile(f)
    \/ \E t \in Threads : RefreshEnter(t)
    \/ \E t \in Threads : LoadConfigStep(t)
    \/ \E t \in Threads : LoadSettingsStep(t)
    \/ \E t \in Threads : SetTimeStep(t)

SpecThreads == InitThreads /\ [][NextThreads]_vars

----------------------------------------------------------------------------
(* Consumer.py: on_event and GET /messages *)

MaxReceived == 3

\* event.body_as_str() of the events the hub delivers.
Predictions == {"A", "B"}

Range(seq) == {seq[i] : i \in DOMAIN seq}

\* The filter with its test left out: every received prediction is new.
new_predictions_all(received, delivered) == received

\* [p for p in received_predictions if p not in delivered_predictions]
new_predictions(received, delivered) ==
    LET undelivered(p) == p \notin delivered
    IN SelectSeq(received, undelivered)

\* received_predictions = [] and delivered_predictions = set(), no request
\* served yet.  seen, before and reported follow the requests: the list the
\* filter of the last request read, and the predictions reported as new
\* before that request and up to it.
\* reported_events holds the positions in received_predictions
\* of the events some response has listed in new_messages.
InitConsumer ==
    /\ StoreConstructed({Missing}, {Missing})
    /\ consumer = [received_predictions |-> << >>, delivered_predictions |-> {},
                   pc |-> "idle", new_predictions |-> << >>, response |-> << >>,
                   seen |-> << >>, before |-> {}, reported |-> {},
                   reported_events |-> {}]
    /\ environ = << >> /\ threads = << >> /\ reloads = << >> /\ producer = << >>
    /\ ScriptsIdle

\* on_event: received_predictions.append(prediction)
OnEvent(prediction) ==
    /\ Len(consumer.received_predictions) < MaxReceived
    /\ consumer' = [consumer EXCEPT !.received_predictions = Append(@, prediction)]
    /\ UNCHANGED <<storeVars, now, last, written, retry, environ, threads, reloads,
                   producer, scriptVars>>

\* get_messages up to the end of the list comprehension.
GetMessagesFilter ==
    /\ consumer.pc = "idle"
    /\ consumer' = [consumer EXCEPT
                      !.pc = "filtered",
                      !.new_predictions = new_predictions(consumer.received_predictions,
                                                          consumer.delivered_predictions),
                      !.seen = consumer.received_predictions,
                      !.before = consumer.reported]
    /\ UNCHANGED <<storeVars, now, last, written, retry, environ, threads, reloads,
                   producer, scriptVars>>

\* get_messages from delivered_predictions.update(...) to the response.
GetMessagesReturn ==
    /\ consumer.pc = "filtered"
    /\ consumer' = [consumer EXCEPT
                      !.pc = "idle",
                      !.delivered_predictions = @ \cup Range(consumer.new_predictions),
                      !.response = [all_messages |-> consumer.received_predictions,
                                    new_messages |-> consumer.new_predictions],
                      !.reported = @ \cup Range(consumer.new_predictions),
                      !.reported_events =
                          @ \cup {i \in 1..Len(consumer.seen) :
                                     consumer.seen[i] \notin consumer.delivered_predictions}]
    /\ UNCHANGED <<storeVars, now, last, written, retry, environ, threads, reloads,
                   producer, scriptVars>>

NextConsumer ==
    \/ \E p \in Predictions : OnEvent(p)
    \/ GetMessagesFilter
    \/ GetMessagesReturn

SpecConsumer == InitConsumer /\ [][NextConsumer]_vars

----------------------------------------------------------------------------
(* Producer.py: POST /upload *)

MaxImages == 2

\* An element of "images": an optional data-URL header, then the Base64 of
\* an encoded picture (or of bytes that are no picture).
Image(header, codec, pixels) ==
    [header |-> header, codec |-> codec, pixels |-> pixels]

Images ==
    {Image("", "png", "p1"),
     Image("data:image/heic;base64", "heic", "p2"),
     Image("data:image/png;base64", "garbage", "p3")}

Labels == {"x", "y"}

\* pillow_heif.open_heif for a header naming heic, else Image.open: whether
\* the decoded bytes open as a picture.
Opens(image) ==
    IF image.header = "data:image/heic;base64"
    THEN image.codec = "heic"
    ELSE image.codec \in {"png", "jpeg"}

\* image.save(format="JPEG", quality=50) and base64.b64encode of the bytes.
compressed_base64(image) ==
    [codec |-> "jpeg", quality |-> 50, pixels |-> image.pixels]

\* The labels test without the length comparison.
labels_rejected_never(labels, images_data) == FALSE

\* labels and len(labels) != len(images_data)
labels_rejected(labels, images_data) ==
    labels # << >> /\ Len(labels) # Len(images_data)

\* The loop sending nothing unless every image goes through.
send_loop_atomic(images_data, labels, i, fail_at, sent) ==
    IF \E k \in 1..Len(images_data) : ~Opens(images_data[k]) \/ fail_at = k
    THEN [status |-> 400, sent |-> << >>]
    ELSE [status |-> 200,
          sent |-> [k \in 1..Len(images_data) |->
                      [body |-> compressed_base64(images_data[k]),
                       properties |-> [label |-> labels[k]]]]]

\* The for loop over zip(images_data, labels) from pair number i on: each
\* image is decoded, re-encoded and sent; an exception (a picture that does
\* not open, a send that fails) ends the request with 400.
RECURSIVE send_loop(_, _, _, _, _)
send_loop(images_data, labels, i, fail_at, sent) ==
    IF i > Min(Len(images_data), Len(labels))
    THEN [status |-> 200, sent |-> sent]
    ELSE IF ~Opens(images_data[i]) \/ fail_at = i
         THEN [status |-> 400, sent |-> sent]
         ELSE send_loop(images_data, labels, i + 1, fail_at,
                        Append(sent, [body |-> compressed_base64(images_data[i]),
                                      properties |-> [label |-> labels[i]]]))

\* get_event_hub_connection: both settings, or (None, None).
connection_available(snapshot) ==
    /\ Truthy(settings_get(snapshot, EH, PyNone).result)
    /\ Truthy(settings_get(snapshot, AH, PyNone).result)

\* upload_images for a JSON body; connected tells whether the store was
\* asked for the connection settings.
upload_images(request, snapshot, fail_at) ==
    IF ~request.has_images \/ request.images = << >>
    THEN [status |-> 400, sent |-> << >>, connected |-> FALSE]
    ELSE IF labels_rejected(request.labels, request.images)
    THEN [status |-> 400, sent |-> << >>, connected |-> FALSE]
    ELSE IF ~connection_available(snapshot)
    THEN [status |-> 500, sent |-> << >>, connected |-> TRUE]
    ELSE LET labels == IF request.labels = << >>
                       THEN [i \in 1..Len(request.images) |-> ""]
                       ELSE request.labels
         IN send_loop(request.images, labels, 1, fail_at, << >>)
            @@ [connected |-> TRUE]

Requests ==
    {[has_images |-> FALSE, images |-> << >>, labels |-> << >>]}
    \cup {[has_images |-> TRUE, images |-> i, labels |-> l] :
            i \in SeqsUpTo(Images, MaxImages), l \in SeqsUpTo(Labels, MaxImages)}

\* data = request.json of the next POST /upload.
UploadRequest(request) ==
    /\ producer.pc = "idle"
    /\ producer' = [pc |-> "received", request |-> request, status |-> 0, sent |-> << >>,
                    fail_at |-> 0]
    /\ UNCHANGED <<storeVars, now, last, written, retry, environ, threads, reloads,
                   consumer, scriptVars>>

\* The rest of upload_images, up to its answer.
Upload(fail_at) ==
    LET r == upload_images(producer.request, Refreshed.settings, fail_at)
    IN /\ producer.pc = "received"
       /\ producer' = [producer EXCEPT !.pc = "idle", !.status = r.status,
                                       !.sent = r.sent, !.fail_at = fail_at]
       /\ IF r.connected
          THEN /\ SetStore(Refreshed)
               /\ last' = Call("get_setting", FALSE, RefreshLog,
                               [key |-> AH, default |-> PyNone,
                                result |-> settings_get(Refreshed.settings, AH, PyNone).result])
          ELSE UNCHANGED <<config, settings, last_refresh_time, last>>
       /\ UNCHANGED <<config_file, settings_file, refresh_interval, now, written,
                      retry, environ, threads, reloads, consumer, scriptVars>>

\* local.settings.json with and without the name of the event hub.
ProducerSettingsFiles ==
    {Json(SettingsValues((EH :> Str("Endpoint=sb://eh0")) @@ (AH :> Str("alphabet")))),
     Json(SettingsValues(EH :> Str("Endpoint=sb://eh0")))}

InitProducer ==
    /\ StoreConstructed({Missing}, ProducerSettingsFiles)
    /\ producer = [pc |-> "idle",
                   request |-> [has_images |-> FALSE, images |-> << >>, labels |-> << >>],
                   status |-> 0, sent |-> << >>, fail_at |-> 0]
    /\ environ = << >> /\ threads = << >> /\ reloads = << >> /\ consumer = << >>
    /\ ScriptsIdle

NextProducer ==
    \/ \E r \in Requests : UploadRequest(r)
    \/ \E fail_at \in 0..MaxImages : Upload(fail_at)

SpecProducer == InitProducer /\ [][NextProducer]_vars

----------------------------------------------------------------------------
(* The store with refresh_interval set by its user *)

\* manager.refresh_interval = interval
SetRefreshInterval(interval) ==
    /\ refresh_interval' = interval
    /\ last' = Call("set_refresh_interval", FALSE,
                    [reloaded |-> FALSE, config_load |-> "skipped",
                     settings_load |-> "skipped"], << >>)
    /\ UNCHANGED <<config_file, settings_file, config, settings, last_refresh_time,
                   now, written, retry, appVars>>

InitInterval == InitStore({Missing, Json(ConfigXY)}, {Json(SettingsA), Json(SettingsB)})

NextInterval ==
    \/ \E d \in TickSteps : Tick(d)
    \/ \E f \in {Missing, Json(ConfigXY)} : EditConfigFile(f)
    \/ \E f \in {Json(SettingsA), Json(SettingsB)} : EditSettingsFile(f)
    \/ \E i \in {0, refresh_interval_default} : SetRefreshInterval(i)
    \/ GetSetting("A", PyNone)
    \/ GetConfig(<<"x", "y">>, PyNone)
    \/ ValidateRequiredSettings(<<"A", "B">>)
    \/ GetServiceEndpoints

SpecInterval == InitInterval /\ [][NextInterval]_vars

----------------------------------------------------------------------------
(* with_retry while config.json is edited and the store refreshed *)

\* config.json without a policy, with one that allows no attempt and with
\* two others.
EditedPolicyFiles ==
    {Missing,
     Json(ConfigWithPolicy(RetryPolicy(0, 1, 30, 2))),
     Json(ConfigWithPolicy(RetryPolicy(2, 1, 30, 2))),
     Json(ConfigWithPolicy(RetryPolicy(4, 2, 5, 3)))}

InitRetryEdit == InitStore(EditedPolicyFiles, {Missing})

\* The clock advances, config.json is rewritten and other callers refresh
\* the store at any point of an execution of with_retry.
NextRetryEdit ==
    \/ \E d \in TickSteps : Tick(d)
    \/ \E f \in EditedPolicyFiles : EditConfigFile(f)
    \/ RefreshConfig
    \/ WithRetryStart
    \/ \E o \in Outcomes, j \in JitterPermille : WithRetryAttempt(o, j)
    \/ WithRetryAfterLoop

SpecRetryEdit == InitRetryEdit /\ [][NextRetryEdit]_vars

----------------------------------------------------------------------------
(* Consumer.py: start_consumer and monitor_consumer *)

MaxDepth == 3

restart_sleep == 5
monitor_sleep == 30
ClockSteps == {10, 30}

\* get_event_hub_connection and the test of start_consumer: the three
\* settings start_consumer needs are all present and non-empty.
consumer_connection(snapshot) ==
    /\ Truthy(settings_get(snapshot, EH, PyNone).result)
    /\ Truthy(settings_get(snapshot, PH, PyNone).result)
    /\ Truthy(settings_get(snapshot, "CONSUMER_GROUP", Str("$Default")).result)

\* A consumer thread that has just been started: start_consumer is entered
\* at the first nesting level.
Started(s) ==
    [s EXCEPT !.thread = "alive", !.alive = @ + 1, !.started = @ + 1,
              !.pc = "enter", !.depth = 1, !.restarts = 0, !.slept = 0,
              !.dead_for = 0]

\* The thread's target has returned at every nesting level.
Ended(s) ==
    [s EXCEPT !.thread = "dead", !.alive = @ - 1, !.pc = "dead", !.depth = 0]

\* The except branch giving up in place of calling start_consumer again.
after_failure_gives_up(s) == Ended(s)

\* The except branch: time.sleep(5), then start_consumer() one level deeper.
after_failure(s) ==
    [s EXCEPT !.slept = @ + restart_sleep, !.restarts = @ + 1, !.depth = @ + 1,
              !.pc = "enter"]

\* The monitor starting a thread whatever the state of the current one.
monitor_restarts_always(thread) == TRUE

\* consumer_thread is None or not consumer_thread.is_alive()
monitor_restarts(thread) == thread \in {"none", "dead"}

\* start_consumer from its entry to receive(): without the connection
\* settings it returns, and so does every level above it; otherwise it
\* closes the previous client and creates a new one.
StartConsumer ==
    /\ supervisor.pc = "enter"
    /\ SetStore(Refreshed)
    /\ supervisor' = IF consumer_connection(Refreshed.settings)
                     THEN [supervisor EXCEPT !.pc = "receiving", !.clients = @ + 1]
                     ELSE Ended(supervisor)
    /\ UNCHANGED <<config_file, settings_file, refresh_interval, now, last, written,
                   retry, environ, threads, reloads, consumer, producer,
                   deleter, manager, uploader>>

\* An exception inside the try block while the client receives.
ConsumerFails ==
    /\ supervisor.pc = "receiving"
    /\ supervisor.depth < MaxDepth
    /\ supervisor' = after_failure(supervisor)
    /\ UNCHANGED <<storeVars, now, last, written, retry, environ, threads, reloads,
                   consumer, producer, deleter, manager, uploader>>

\* One pass of the loop of monitor_consumer, when its sleep is over.
MonitorCheck ==
    /\ supervisor.since_check = monitor_sleep
    /\ SetStore(Refreshed)
    /\ supervisor' = [(IF monitor_restarts(supervisor.thread)
                       THEN Started(supervisor) ELSE supervisor)
                      EXCEPT !.since_check = 0]
    /\ UNCHANGED <<config_file, settings_file, refresh_interval, now, last, written,
                   retry, environ, threads, reloads, consumer, producer,
                   deleter, manager, uploader>>

\* The clock advances while the monitor sleeps.
SupervisorTick(d) ==
    /\ now + d <= StartTime + MaxElapsed
    /\ supervisor.since_check + d <= monitor_sleep
    /\ now' = now + d
    /\ supervisor' = [supervisor EXCEPT
                        !.since_check = @ + d,
                        !.dead_for = IF supervisor.thread = "dead" THEN @ + d ELSE @]
    /\ UNCHANGED <<storeVars, last, written, retry, environ, threads, reloads,
                   consumer, producer, deleter, manager, uploader>>

\* local.settings.json with and without the name of the predictions hub.
SupervisorSettingsFiles ==
    {Json(SettingsValues((EH :> Str("Endpoint=sb://eh0")) @@ (PH :> Str("predictions")))),
     Json(SettingsValues(EH :> Str("Endpoint=sb://eh0")))}

\* __main__: the consumer thread is started, then the monitor thread, whose
\* first check is due at once.
InitSupervisor ==
    /\ StoreConstructed({Missing}, SupervisorSettingsFiles)
    /\ supervisor = [thread |-> "alive", alive |-> 1, started |-> 1,
                     pc |-> "enter", depth |-> 1,
                     restarts |-> 0, slept |-> 0, clients |-> 0,
                     since_check |-> monitor_sleep, dead_for |-> 0]
    /\ environ = << >> /\ threads = << >> /\ reloads = << >>
    /\ consumer = << >> /\ producer = << >>
    /\ deleter = << >> /\ manager = << >> /\ uploader = << >>

NextSupervisor ==
    \/ \E d \in ClockSteps : SupervisorTick(d)
    \/ \E f \in SupervisorSettingsFiles : EditSettingsFile(f)
    \/ StartConsumer
    \/ ConsumerFails
    \/ MonitorCheck

SpecSupervisor == InitSupervisor /\ [][NextSupervisor]_vars

----------------------------------------------------------------------------
(* delete_services.py *)

MaxResources == 2

\* Names are sequences of characters; str.lower() folds each character.
lower_char(c) == IF c = "A" THEN "a" ELSE IF c = "B" THEN "b" ELSE c

lower(name) == [k \in 1..Len(name) |-> lower_char(name[k])]

\* str.startswith
startswith(name, prefix) ==
    /\ Len(prefix) <= Len(name)
    /\ SubSeq(name, 1, Len(prefix)) = prefix

\* sub in name
contains(name, sub) ==
    \E k \in 0..(Len(name) - Len(sub)) : SubSeq(name, k + 1, k + Len(sub)) = sub

SITES == "Microsoft.Web/sites"
SERVERFARMS == "Microsoft.Web/serverfarms"
STORAGEACCOUNTS == "Microsoft.Storage/storageAccounts"

\* resource_type.lower()
lower_type(resource_type) ==
    CASE resource_type = SITES -> "microsoft.web/sites"
      [] resource_type = SERVERFARMS -> "microsoft.web/serverfarms"
      [] resource_type = STORAGEACCOUNTS -> "microsoft.storage/storageaccounts"
      [] OTHER -> resource_type

related_resource_types ==
    {"microsoft.insights/components",
     "microsoft.operationalinsights/workspaces",
     "microsoft.keyvault/vaults",
     "microsoft.eventgrid/systemtopics",
     "microsoft.web/serverfarms",
     "microsoft.network/applicationgateways",
     "microsoft.network/virtualnetworks",
     "microsoft.network/networksecuritygroups",
     "microsoft.network/publicipaddresses",
     "microsoft.network/privatednszones"}

\* load_local_settings: the lower-cased non-empty values of the four
\* resource settings.
load_local_settings(values) == {lower(v) : v \in {w \in values : w # << >>}}

\* should_delete_resource without its rule on related resource types.
should_delete_resource_names_only(resource_name, resource_type, active_resources, resource_prefix) ==
    \/ lower(resource_name) \in active_resources
    \/ resource_prefix # << >> /\ startswith(lower(resource_name), lower(resource_prefix))
    \/ \E main_resource_name \in active_resources :
          contains(lower(resource_name), main_resource_name)

should_delete_resource(resource_name, resource_type, active_resources, resource_prefix) ==
    \/ active_resources # {} /\ lower(resource_name) \in active_resources
    \/ resource_prefix # << >> /\ startswith(lower(resource_name), lower(resource_prefix))
    \/ \E main_resource_name \in active_resources :
          contains(lower(resource_name), main_resource_name)
    \/ lower_type(resource_type) \in related_resource_types

ResourceNames == {<<"a">>, <<"A", "b">>, <<"c">>}
ResourceTypes == {SITES, SERVERFARMS, STORAGEACCOUNTS}
Resources == [name : ResourceNames, type : ResourceTypes]
SettingNames == {<<"A">>, <<"b">>}
Prefixes == {<<>>, <<"C">>}

\* The module up to the deletion loop: the active resources, the prefix and
\* the listing of the resource group, copied in its own order.
InitDeleter ==
    /\ StoreConstructed({Missing}, {Missing})
    /\ \E values \in SUBSET SettingNames, resource_prefix \in Prefixes,
          resources \in SeqsUpTo(Resources, MaxResources) :
          deleter = [active_resources |-> load_local_settings(values),
                     resource_prefix |-> resource_prefix,
                     resources_to_delete |-> resources,
                     processed |-> << >>, result |-> << >>,
                     deleted_count |-> 0, skipped_count |-> 0,
                     pc |-> "loop"]
    /\ environ = << >> /\ threads = << >> /\ reloads = << >>
    /\ consumer = << >> /\ producer = << >>
    /\ supervisor = << >> /\ manager = << >> /\ uploader = << >>

\* One pass of the deletion loop for the next resource; ok tells whether
\* begin_delete_by_id and wait() succeed.
DeleteResource(ok) ==
    /\ deleter.pc = "loop"
    /\ Len(deleter.processed) < Len(deleter.resources_to_delete)
    /\ LET i == Len(deleter.processed) + 1
           resource == deleter.resources_to_delete[i]
           wanted == should_delete_resource(resource.name, resource.type,
                                            deleter.active_resources,
                                            deleter.resource_prefix)
       IN  deleter' = [deleter EXCEPT
                         !.processed = Append(@, i),
                         !.result = Append(@, IF ~wanted THEN "skipped"
                                              ELSE IF ok THEN "deleted" ELSE "failed"),
                         !.skipped_count = IF wanted THEN @ ELSE @ + 1,
                         !.deleted_count = IF wanted /\ ok THEN @ + 1 ELSE @]
    /\ UNCHANGED <<storeVars, now, last, written, retry, environ, threads, reloads,
                   consumer, producer, supervisor, manager, uploader>>

\* The loop is over: the counts are logged.
DeleteDone ==
    /\ deleter.pc = "loop"
    /\ Len(deleter.processed) = Len(deleter.resources_to_delete)
    /\ deleter' = [deleter EXCEPT !.pc = "done"]
    /\ UNCHANGED <<storeVars, now, last, written, retry, environ, threads, reloads,
                   consumer, producer, supervisor, manager, uploader>>

NextDelete ==
    \/ \E ok \in BOOLEAN : DeleteResource(ok)
    \/ DeleteDone

SpecDelete == InitDeleter /\ [][NextDelete]_vars

----------------------------------------------------------------------------
(* update_blob_container_name *)

\* config["azure"]["resources"] can be assigned into: KeyError or TypeError
\* otherwise.
has_resources(doc) ==
    /\ IsDict(doc)
    /\ "azure" \in DOMAIN doc.m
    /\ IsDict(doc.m["azure"])
    /\ "resources" \in DOMAIN doc.m["azure"].m
    /\ IsDict(doc.m["azure"].m["resources"])

\* config["azure"]["resources"]["blob_container"] = container_name
set_blob_container(doc, container_name) ==
    DictSet(doc, "azure",
            DictSet(doc.m["azure"], "resources",
                    DictSet(doc.m["azure"].m["resources"], "blob_container",
                            container_name)))

\* update_blob_container_name as a function of the two files and the store.
\* io_config and io_settings are what the two writes do.
update_blob_container_name(cfile, sfile, s, interval, current_time, container_name, io_config, io_settings) ==
    LET result(cf, sf, st, raised, reloaded) ==
            [config_file |-> cf, settings_file |-> sf, store |-> st,
             raised |-> raised, reloaded |-> reloaded]
    IN IF cfile.kind # "json" \/ ~has_resources(cfile.doc)
       THEN result(cfile, sfile, s, TRUE, FALSE)
       ELSE IF io_config = "open_fails"
       THEN result(cfile, sfile, s, TRUE, FALSE)
       ELSE IF io_config = "dump_fails"
       THEN result(Malformed, sfile, s, TRUE, FALSE)
       ELSE LET written_config == Json(set_blob_container(cfile.doc, container_name))
                reloaded == should_reload(current_time, s.last_refresh_time, interval)
                s1 == refresh_config(s, written_config, sfile, interval, current_time)
                name == settings_get(s1.settings, SA, PyNone)
                endpoints == get_service_endpoints(s1.settings, s1.config)
            IN IF name.raised \/ endpoints.raised
               THEN result(written_config, sfile, s1, TRUE, reloaded)
               ELSE LET u == update_service_settings(
                                 sfile, s1.settings,
                                 settings_get(s1.settings, WS, PyNone).result,
                                 Dict(("name" :> name.result)
                                      @@ ("connection_string" :>
                                             settings_get(s1.settings, CS, PyNone).result)
                                      @@ ("container_name" :> container_name)),
                                 endpoints.result, io_settings)
                    IN result(written_config, u.file,
                              [s1 EXCEPT !.settings = u.settings], u.raised, reloaded)

UpdateBlobContainerName(container_name, io_config, io_settings) ==
    LET r == update_blob_container_name(config_file, settings_file, Store,
                                        refresh_interval, now, container_name,
                                        io_config, io_settings)
    IN /\ config_file' = r.config_file
       /\ settings_file' = r.settings_file
       /\ SetStore(r.store)
       /\ last' = Call("update_blob_container_name", r.raised,
                       [reloaded |-> r.reloaded,
                        config_load |-> IF r.reloaded THEN config_load_log(r.config_file)
                                        ELSE "skipped",
                        settings_load |-> "skipped"],
                       [container_name |-> container_name, io_config |-> io_config,
                        io_settings |-> io_settings])
       /\ UNCHANGED <<refresh_interval, now, written, retry, appVars>>

\* {"azure": {"resources": {"blob_container": "c0"}}}
ConfigResources ==
    Dict("azure" :> Dict("resources" :> Dict("blob_container" :> Str("c0"))))

BlobConfigFiles == {Missing, Json(ConfigAzure), Json(ConfigResources)}
BlobSettingsFiles == {Missing, Malformed, Json(SettingsLive)}
ContainerNames == {Str("c1"), Str("c2")}

InitBlob == InitStore(BlobConfigFiles, BlobSettingsFiles)

NextBlob ==
    \/ \E d \in TickSteps : Tick(d)
    \/ \E f \in BlobSettingsFiles : EditSettingsFile(f)
    \/ \E c \in ContainerNames, io_config \in WriteOutcomes, io_settings \in WriteOutcomes :
          UpdateBlobContainerName(c, io_config, io_settings)

SpecBlob == InitBlob /\ [][NextBlob]_vars

----------------------------------------------------------------------------
(* manage.py *)

required_settings ==
    <<"AZURE_STORAGE_ACCOUNT", "AZURE_EVENT_HUB_NAMESPACE", "AZURE_FUNCTION_APP",
      "AZURE_ML_WORKSPACE">>

\* verify_config logging the missing settings without exiting.
verify_config_logs_only(snapshot) == "ok"

\* verify_config: "ok" when it returns, "exit" when it calls sys.exit(1),
\* for missing settings or for an exception of the validation.
verify_config(snapshot) ==
    IF ~IsDict(snapshot) THEN "exit"
    ELSE IF missing_keys(snapshot, required_settings) # << >> THEN "exit"
    ELSE "ok"

\* start_services up to its sleep loop: failed is the number of the Popen
\* call that raises, 0 for none.
start_services(failed) ==
    CASE failed = 1 -> [spawned |-> << >>, pc |-> "exited", exit_status |-> 1]
      [] failed = 2 -> [spawned |-> <<"Producer.py">>, pc |-> "exited", exit_status |-> 1]
      [] OTHER -> [spawned |-> <<"Producer.py", "Consumer.py">>, pc |-> "running",
                   exit_status |-> 0]

\* main for the commands start and verify.
main(command, snapshot, failed) ==
    IF verify_config(snapshot) = "exit"
    THEN [command |-> command, spawned |-> << >>, pc |-> "exited", exit_status |-> 1]
    ELSE IF command = "start"
    THEN [command |-> command] @@ start_services(failed)
    ELSE [command |-> command, spawned |-> << >>, pc |-> "exited", exit_status |-> 0]

Manage(command, failed) ==
    /\ manager.pc = "main"
    /\ SetStore(Refreshed)
    /\ manager' = main(command, Refreshed.settings, failed)
    /\ UNCHANGED <<config_file, settings_file, refresh_interval, now, last, written,
                   retry, environ, threads, reloads, consumer, producer,
                   supervisor, deleter, uploader>>

ManageValues(present) ==
    [k \in present |-> IF k = "AZURE_FUNCTION_APP" THEN Str("") ELSE Str("v")]

\* local.settings.json: absent, unreadable, with all four settings, and
\* with one of them left out or empty.
ManageSettingsFiles ==
    {Missing, Malformed, Json(Str("text")),
     Json(SettingsValues([k \in Range(required_settings) |-> Str("v")]))}
    \cup {Json(SettingsValues(ManageValues(Range(required_settings) \ {k}))) :
             k \in Range(required_settings)}

\* The process has imported config_utils: the store is constructed.
InitManage ==
    /\ StoreConstructed({Missing}, ManageSettingsFiles)
    /\ manager = [command |-> "none", spawned |-> << >>, pc |-> "main", exit_status |-> 0]
    /\ environ = << >> /\ threads = << >> /\ reloads = << >>
    /\ consumer = << >> /\ producer = << >>
    /\ supervisor = << >> /\ deleter = << >> /\ uploader = << >>

NextManage ==
    \/ \E d \in TickSteps : Tick(d)
    \/ \E f \in ManageSettingsFiles : EditSettingsFile(f)
    \/ \E command \in {"start", "verify"}, failed \in 0..2 : Manage(command, failed)

SpecManage == InitManage /\ [][NextManage]_vars

----------------------------------------------------------------------------
(* function_app.py: store_training_data *)

max_retries == 3
retry_delay == 1

\* The upload loop sleeping after its last failure as after the others.
upload_loop_sleeps_always(attempt, outcomes, slept) ==
    LET failed == CHOOSE n \in 0..max_retries :
                      /\ \A k \in 1..n : ~outcomes[k]
                      /\ n < max_retries => outcomes[n + 1]
    IN [attempts |-> IF failed = max_retries THEN failed ELSE failed + 1,
        slept |-> [k \in 1..failed |-> retry_delay * 2^(k - 1)],
        stored |-> failed < max_retries,
        raised |-> failed = max_retries]

\* for attempt in range(max_retries), from the given attempt on: outcomes[k]
\* tells whether the k-th upload_blob succeeds.  raised is the exception
\* the last attempt re-raises inside the handler.
RECURSIVE upload_loop(_, _, _)
upload_loop(attempt, outcomes, slept) ==
    IF attempt >= max_retries
    THEN [attempts |-> attempt, slept |-> slept, stored |-> FALSE, raised |-> FALSE]
    ELSE IF outcomes[attempt + 1]
    THEN [attempts |-> attempt + 1, slept |-> slept, stored |-> TRUE, raised |-> FALSE]
    ELSE IF attempt = max_retries - 1
    THEN [attempts |-> attempt + 1, slept |-> slept, stored |-> FALSE, raised |-> TRUE]
    ELSE upload_loop(attempt + 1, outcomes, Append(slept, retry_delay * 2^attempt))

\* What get_blob_storage_connection gives the handler: a connection, the
\* pair (None, None), or an exception.
Connections == {"available", "missing", "raises"}
\* The container exists, is created, or cannot be created.
Containers == {"exists", "created", "create_fails"}
UploadOutcomes == [1..max_retries -> BOOLEAN]

\* store_training_data: the outer except logs every exception of the body
\* and the handler returns.
store_training_data(connection, container, outcomes) ==
    LET none == [attempts |-> 0, slept |-> << >>, stored |-> FALSE]
    IN CASE connection = "missing" ->
               none @@ [logged |-> "missing", raised |-> FALSE]
         [] connection = "raises" \/ container = "create_fails" ->
               none @@ [logged |-> "error", raised |-> FALSE]
         [] OTHER ->
               LET r == upload_loop(0, outcomes, << >>)
               IN [attempts |-> r.attempts, slept |-> r.slept, stored |-> r.stored,
                   logged |-> IF r.raised THEN "error" ELSE "stored",
                   raised |-> FALSE]

\* One event of the alphabet hub.  get_blob_storage_connection refreshes the
\* store before it asks for the storage details.
StoreTrainingData(connection, container, outcomes) ==
    /\ SetStore(Refreshed)
    /\ uploader' = [connection |-> connection, container |-> container,
                    outcomes |-> outcomes]
                   @@ store_training_data(connection, container, outcomes)
    /\ UNCHANGED <<config_file, settings_file, refresh_interval, now, last, written,
                   retry, environ, threads, reloads, consumer, producer,
                   supervisor, deleter, manager>>

UploaderSettingsFiles == {Missing, Json(SettingsLive)}

\* The function app is loaded and no event has arrived.
InitUploader ==
    /\ StoreConstructed({Missing}, UploaderSettingsFiles)
    /\ uploader = [connection |-> "none", container |-> "none",
                   outcomes |-> [k \in 1..max_retries |-> FALSE],
                   attempts |-> 0, slept |-> << >>, stored |-> FALSE,
                   logged |-> "none", raised |-> FALSE]
    /\ environ = << >> /\ threads = << >> /\ reloads = << >>
    /\ consumer = << >> /\ producer = << >>
    /\ supervisor = << >> /\ deleter = << >> /\ manager = << >>

NextUploader ==
    \/ \E d \in TickSteps : Tick(d)
    \/ \E f \in UploaderSettingsFiles : EditSettingsFile(f)
    \/ \E connection \in Connections, container \in Containers,
          outcomes \in UploadOutcomes :
          StoreTrainingData(connection, container, outcomes)

SpecUploader == InitUploader /\ [][NextUploader]_vars

----------------------------------------------------------------------------
(* Claims about the store *)

\* A step that is a call of an operation that starts with refresh_config()
\* (the other steps advance the clock or edit a file).
RefreshStep ==
    /\ UNCHANGED <<now, config_file, settings_file>>
    /\ last'.op \in {"refresh_config", "get_setting", "get_config",
                     "validate_required_settings", "get_service_endpoints"}

Age == now - last_refresh_time

\* C3: refresh_config reloads the two documents if and only if
\* now - last_refresh_time > refresh_interval; when the elapsed time is at
\* most the interval (in particular equal to it) nothing is reloaded and the
\* snapshots and the timestamp are unchanged.
C3_ReloadIffStale ==
    [][RefreshStep =>
         /\ last'.reloaded <=> (Age > refresh_interval)
         /\ Age > refresh_interval =>
              /\ last_refresh_time' = now
              /\ config_file.kind = "json" => config' = config_file.doc
              /\ last'.config_load # "skipped" /\ last'.settings_load # "skipped"
         /\ Age <= refresh_interval =>
              /\ UNCHANGED <<config, settings, last_refresh_time>>
              /\ last'.config_load = "skipped" /\ last'.settings_load = "skipped"]_vars

\* C3 witness: a refresh ran exactly one interval after the last reload, with
\* a readable config.json that differs from the snapshot, and reloaded nothing.
C3_Witness ==
    /\ last.op = "refresh_config"
    /\ ~last.reloaded
    /\ Age = refresh_interval
    /\ config_file.kind = "json"
    /\ config_file.doc # config

RECURSIVE NodeAt(_, _, _)
NodeAt(doc, keys, i) ==
    IF i = 0 THEN doc ELSE NodeAt(doc, keys, i - 1).m[keys[i]]

\* The walk cannot take key number i: the node before it is not a mapping or
\* lacks the key.
Broken(doc, keys, i) ==
    LET node == NodeAt(doc, keys, i - 1)
    IN ~IsDict(node) \/ keys[i] \notin DOMAIN node.m

\* C5: get_config returns default as soon as the current node is not a
\* mapping or lacks the next key, otherwise the node reached after the last
\* key (the whole document for the empty path); it never raises.
C5_GetConfigWalk ==
    last.op = "get_config" =>
        /\ ~last.raised
        /\ LET keys == last.keys
               stops == \E i \in 1..Len(keys) :
                            /\ \A j \in 1..(i - 1) : ~Broken(config, keys, j)
                            /\ Broken(config, keys, i)
           IN last.result = IF stops THEN last.default
                            ELSE NodeAt(config, keys, Len(keys))

\* C5 witness: a path of three keys whose second node is a string.
C5_Witness ==
    /\ last.op = "get_config"
    /\ config = ConfigXY
    /\ last.keys = <<"x", "y", "azure">>
    /\ last.default = Str("default")
    /\ last.result = Str("default")

\* A key the validator must report: absent, or present with a falsy value.
IsMissing(key) == key \notin DOMAIN settings.m \/ settings.m[key] \in {PyNone, Str("")}

\* C6: validate_required_settings returns the subsequence of the manifest,
\* in manifest order, of the keys that are absent or hold a falsy value.
C6_ValidateSubsequence ==
    last.op = "validate_required_settings" =>
        /\ ~last.raised
        /\ last.result = SelectSeq(last.required_keys, IsMissing)

\* C6 witness: manifest [A, B, C] against {A: "", B: "2", C: null}.
C6_Witness ==
    /\ last.op = "validate_required_settings"
    /\ last.required_keys = <<"A", "B", "C">>
    /\ settings = SettingsB.m["Values"]
    /\ last.result = <<"A", "C">>

\* C10 as claimed: whenever a reload finds a document missing or unreadable,
\* the snapshot of that document is empty afterwards.
C10_Original ==
    /\ last.config_load \in {"not_found", "error"} => config = EmptyDict
    /\ last.settings_load \in {"not_found", "error"} => settings = EmptyDict

\* C10 amended: a load that finds its document missing or unreadable does
\* not raise and leaves the snapshot as it was: empty at construction,
\* otherwise what the last successful load put there.
C10_FailedLoadKeepsSnapshot ==
    /\ (last.op = "__init__" =>
          /\ ~last.raised
          /\ last.config_load # "loaded" => config = EmptyDict
          /\ last.settings_load # "loaded" => settings = EmptyDict)
    /\ [][RefreshStep =>
            /\ ~last'.raised
            /\ last'.config_load \in {"not_found", "error"} => config' = config
            /\ last'.settings_load \in {"not_found", "error"} => settings' = settings]_vars

\* C10 witness: a reload found local.settings.json unreadable while the
\* snapshot held values from an earlier load.
C10_Witness ==
    /\ last.op = "get_setting"
    /\ last.settings_load = "error"
    /\ settings = SettingsA.m["Values"]
    /\ last.result = Str("1")

----------------------------------------------------------------------------
(* Claims about update_service_settings *)

\* The Values mapping stored in a file; empty when the file holds none.
Stored(file) ==
    IF file.kind = "json" /\ IsDict(file.doc) /\ "Values" \in DOMAIN file.doc.m
       /\ IsDict(file.doc.m["Values"])
    THEN file.doc.m["Values"].m
    ELSE << >>

\* The value stored for a key: <<v>>, or << >> when there is none.
StoredValue(file, key) ==
    IF key \in DOMAIN Stored(file) THEN <<Stored(file)[key]>> ELSE << >>

\* A step that is the call of update_service_settings recorded in last'.
UpdateStep ==
    /\ last'.op = "update_service_settings"
    /\ UpdateServiceSettings(last'.ml_workspace_name, last'.storage_account,
                             last'.endpoints, last'.io)

FixedKeys == {WS, SA, CS, CN, WJ}

\* C7 as claimed: every key received in endpoints with an empty-string value
\* keeps its stored value, whichever key it is.
C7_Original ==
    [][UpdateStep =>
         \A k \in DOMAIN last'.endpoints.m :
            last'.endpoints.m[k] = Str("") =>
                StoredValue(settings_file', k) = StoredValue(settings_file, k)]_vars

\* C7 amended: a key received in endpoints with an empty-string value keeps
\* its stored value when it is not one of the five keys the call always
\* assigns and the write does not break off after truncating the file.
C7_EmptyEndpointKept ==
    [][UpdateStep =>
         \A k \in DOMAIN last'.endpoints.m :
            (/\ last'.endpoints.m[k] = Str("")
             /\ k \notin FixedKeys
             /\ (last'.wrote \/ settings_file' = settings_file)) =>
                StoredValue(settings_file', k) = StoredValue(settings_file, k)]_vars

\* C7 witness: the call wrote the document, was given an empty
\* EventHubConnectionString, and the stored one is still the earlier one.
C7_Witness ==
    /\ last.op = "update_service_settings"
    /\ last.wrote
    /\ EH \in DOMAIN last.endpoints.m
    /\ last.endpoints.m[EH] = Str("")
    /\ StoredValue(settings_file, EH) = <<Str("eh0")>>
    /\ StoredValue(settings_file, PE) = <<Str("pe1")>>

\* C8 as claimed: a call that could not read or write the document raises.
C8_Original ==
    (last.op = "update_service_settings" /\ last.failed) => last.raised

\* C9: once update_service_settings has written the document, the snapshot
\* holds every value it assigned and get_setting returns it, whatever the age
\* of the last refresh (until somebody else edits the document).
C9_UpdateVisible ==
    /\ \A k \in DOMAIN written : k \in DOMAIN settings.m /\ settings.m[k] = written[k]
    /\ (last.op = "get_setting" /\ last.key \in DOMAIN written) =>
            ~last.raised /\ last.result = written[last.key]

\* C9 witness: get_setting returns the connection string an update assigned,
\* before any reload by refresh_config since construction.
C9_Witness ==
    /\ last.op = "get_setting"
    /\ ~last.reloaded
    /\ last_refresh_time = StartTime
    /\ last.key = EH
    /\ EH \in DOMAIN written
    /\ written[EH] = Str("eh1")
    /\ last.result = Str("eh1")

----------------------------------------------------------------------------
(* Claims about with_retry *)

\* C1: with max_attempts N >= 1 and every invocation failing, with_retry
\* invokes the operation exactly N times, sleeps N - 1 times (not after the
\* last attempt) and raises the exception of the last invocation.
C1_AlwaysFailing ==
    retry.max_attempts >= 1 =>
        /\ Len(retry.calls) <= retry.max_attempts
        /\ (retry.pc = "loop" => Len(retry.delays) = Len(retry.calls))
        /\ (retry.pc = "raised" =>
              /\ Len(retry.calls) = retry.max_attempts
              /\ \A i \in 1..Len(retry.calls) : retry.calls[i] \in Exceptions
              /\ Len(retry.delays) = retry.max_attempts - 1
              /\ retry.raised = retry.calls[Len(retry.calls)])

\* C1 witness: three failing invocations under max_attempts = 3, the last
\* one's exception raised after two sleeps.
C1_Witness ==
    /\ retry.pc = "raised"
    /\ retry.max_attempts = 3
    /\ retry.calls = <<"ConnectionError", "ConnectionError", "ValueError">>
    /\ retry.raised = "ValueError"
    /\ Len(retry.delays) = 2

\* C2: the jitter-free delay before the k-th retry is
\* min(initial_delay * exponential_base^(k-1), max_delay), never above
\* max_delay; for 1, 2, 30 the delays are 1, 2, 4, 8, 16, 30, 30, ...
C2_BackoffDelays ==
    \A k \in 1..Len(retry.delays) :
        /\ retry.delays[k] =
               Min(retry.initial_delay * (retry.exponential_base ^ (k - 1)),
                   retry.max_delay)
        /\ retry.delays[k] <= retry.max_delay
        /\ (retry.initial_delay = 1 /\ retry.exponential_base = 2
            /\ retry.max_delay = 30) =>
               retry.delays[k] = IF k <= 5 THEN <<1, 2, 4, 8, 16>>[k] ELSE 30

\* C2 witness: seven retries under the policy 1, 2, 30.
C2_Witness ==
    /\ retry.delays = <<1, 2, 4, 8, 16, 30, 30>>
    /\ retry.slept_ms = 30000

----------------------------------------------------------------------------
(* Claims about get_service_endpoints *)

\* The walk takes the first i keys: no node on the way is a non-mapping or
\* lacks its key.
RECURSIVE Reaches(_, _, _)
Reaches(doc, keys, i) ==
    i = 0 \/ (Reaches(doc, keys, i - 1) /\ ~Broken(doc, keys, i))

\* The region or path the defaults document configures, else the fallback.
Configured(kind, field, fallback) ==
    LET keys == <<"azure", "resources", "ml_workspace", "endpoints", kind, field>>
    IN IF Reaches(config, keys, 6) THEN NodeAt(config, keys, 6) ELSE Str(fallback)

WorkspaceName == IF WS \in DOMAIN settings.m THEN settings.m[WS] ELSE PyNone

\* C11: with a non-empty AZURE_ML_WORKSPACE_NAME, get_service_endpoints
\* returns https://{workspace}.{region}.inference.azureml.net/{path} as the
\* prediction endpoint and https://{workspace}.{region}.training.azureml.net/
\* {path} as the training endpoint, region and path coming from the defaults
\* document or else eastus, score and train; with an empty or absent
\* workspace name the result has neither key.
C11_EndpointUrls ==
    (last.op = "get_service_endpoints" /\ ~last.raised) =>
        LET r == last.result.m
        IN IF WorkspaceName \in {PyNone, Str("")}
           THEN PE \notin DOMAIN r /\ TE \notin DOMAIN r
           ELSE /\ PE \in DOMAIN r /\ TE \in DOMAIN r
                /\ r[PE].v = "https://" \o WorkspaceName.v \o "."
                             \o format_value(Configured("prediction", "region", "eastus"))
                             \o ".inference.azureml.net/"
                             \o format_value(Configured("prediction", "path", "score"))
                /\ r[TE].v = "https://" \o WorkspaceName.v \o "."
                             \o format_value(Configured("training", "region", "eastus"))
                             \o ".training.azureml.net/"
                             \o format_value(Configured("training", "path", "train"))

C11_Witness ==
    /\ last.op = "get_service_endpoints"
    /\ ~last.raised
    /\ PE \in DOMAIN last.result.m
    /\ last.result.m[PE] = Str("https://ws1.westus.inference.azureml.net/predict")
    /\ last.result.m[TE] = Str("https://ws1.westeurope.training.azureml.net/train")

----------------------------------------------------------------------------
(* Claims about the environment *)

EnvironSet(key) == key \in DOMAIN environ /\ environ[key] # ""

\* C12 as stated: when a non-empty environment variable named like the key
\* exists, get_setting returns the environment's value.
C12_Original ==
    (last.op = "get_setting" /\ EnvironSet(last.key)) =>
        last.result = Str(environ[last.key])

\* C12: get_setting reads the runtime-values snapshot alone: even when a
\* non-empty environment variable named like the key exists, it returns the
\* snapshot's value for the key, or the caller's default when the snapshot
\* has no such key.
C12_EnvironIgnored ==
    (last.op = "get_setting" /\ EnvironSet(last.key)) =>
        /\ ~last.raised
        /\ last.result = (IF last.key \in DOMAIN settings.m
                          THEN settings.m[last.key] ELSE last.default)

C12_Witness ==
    /\ last.op = "get_setting"
    /\ last.key = "A"
    /\ environ = ("A" :> "fromenv")
    /\ "A" \in DOMAIN settings.m
    /\ last.result = Str("1")

----------------------------------------------------------------------------
(* Claims about stored and derived endpoints *)

\* The snapshot stores a prediction endpoint, and a workspace name from which
\* get_service_endpoints derives one too.
StoredAndDerived ==
    /\ last.op = "get_service_endpoints"
    /\ ~last.raised
    /\ PE \in DOMAIN settings.m
    /\ WorkspaceName \notin {PyNone, Str("")}

\* C13 as stated: a prediction endpoint stored in the runtime values is the
\* one get_service_endpoints returns, not the URL built from the defaults.
C13_Original ==
    StoredAndDerived => last.result.m[PE] = settings.m[PE]

\* C13: the prediction endpoint get_service_endpoints returns is the URL
\* built from the stored workspace name and the region and path of the
\* defaults document (or eastus and score), whatever value the runtime
\* values store under AZURE_ML_PREDICTION_ENDPOINT.
C13_DerivedReturned ==
    StoredAndDerived =>
        last.result.m[PE].v =
            "https://" \o WorkspaceName.v \o "."
            \o format_value(Configured("prediction", "region", "eastus"))
            \o ".inference.azureml.net/"
            \o format_value(Configured("prediction", "path", "score"))

C13_Witness ==
    /\ StoredAndDerived
    /\ settings.m[PE] = Str("https://stored/score")
    /\ last.result.m[PE] = Str("https://ws2.eastus.inference.azureml.net/score")

----------------------------------------------------------------------------
(* Claims about threads *)

\* C14: whatever the interleaving of the threads that call refresh_config,
\* two consecutive reloads are separated by more than refresh_interval
\* (at most one reload per interval).
C14_Original ==
    Len(reloads) = 2 => reloads[2] - reloads[1] > refresh_interval

----------------------------------------------------------------------------
(* Claims about GET /messages *)

Responded == consumer.pc = "idle" /\ consumer.response # << >>

----------------------------------------------------------------------------
(* Claims about POST /upload *)

\* C16: a 200 answer to a request with n images means exactly n messages
\* were sent, in request order, the i-th carrying the i-th image re-encoded
\* as JPEG and the i-th supplied label as its label property (the empty
\* string when no labels were supplied); a non-empty labels list of another
\* length is answered 400 with nothing sent.
C16_OneMessagePerImage ==
    LET images == producer.request.images
        labels == producer.request.labels
        sent == producer.sent
    IN /\ producer.status = 200 =>
            /\ Len(sent) = Len(images)
            /\ \A i \in 1..Len(images) :
                  /\ sent[i].body = [codec |-> "jpeg", quality |-> 50,
                                     pixels |-> images[i].pixels]
                  /\ sent[i].properties.label = (IF labels = << >> THEN "" ELSE labels[i])
       /\ (producer.status # 0 /\ producer.request.has_images /\ labels # << >>
           /\ Len(labels) # Len(images)) =>
            (producer.status = 400 /\ sent = << >>)

\* C16 witness: two images and two labels, answered 200.
C16_Witness ==
    /\ producer.status = 200
    /\ Len(producer.request.images) = 2
    /\ producer.request.labels = <<"x", "y">>
    /\ Len(producer.sent) = 2

----------------------------------------------------------------------------
(* Claims about the refresh timestamp *)

\* A refresh step that reloaded and could not read one of the documents.
FailedReloadStep ==
    /\ RefreshStep
    /\ last'.reloaded
    /\ last'.config_load # "loaded" \/ last'.settings_load # "loaded"

\* C17 as stated: a refresh in which a document is missing or fails to
\* parse leaves last_refresh_time unchanged.
C17_Original ==
    [][FailedReloadStep => last_refresh_time' = last_refresh_time]_vars

\* C17: last_refresh_time is set to the clock reading of every reload,
\* whether or not the documents could be read: after a reload in which a
\* document is missing or fails to parse, last_refresh_time is that reading
\* and an access made at once does not attempt the reload again.
C17_TimestampOnEveryReload ==
    [][FailedReloadStep =>
         /\ last_refresh_time' = now
         /\ last_refresh_time' # last_refresh_time
         /\ ~(now - last_refresh_time' > refresh_interval)]_vars

C17_Witness ==
    /\ last.op = "refresh_config"
    /\ last.reloaded
    /\ last.config_load = "not_found"
    /\ last.settings_load = "error"
    /\ last_refresh_time = now
    /\ now > StartTime

----------------------------------------------------------------------------
(* Claims about a refresh interval of 0 *)

AccessOps ==
    {"get_setting", "get_config", "validate_required_settings", "get_service_endpoints"}

\* C18 as stated: with refresh_interval 0 every access reloads both
\* documents, two accesses at the same clock reading included.
C18_Original ==
    (refresh_interval = 0 /\ last.op \in AccessOps) => last.reloaded

\* C18: with refresh_interval 0 an access (get_setting, get_config,
\* validate_required_settings, get_service_endpoints) reloads both documents
\* if and only if the clock has advanced since the last reload; an access at
\* the clock reading of the last reload reloads nothing.
C18_ReloadWhenClockAdvanced ==
    [][(RefreshStep /\ refresh_interval = 0 /\ last'.op \in AccessOps) =>
         /\ last'.reloaded <=> (now > last_refresh_time)
         /\ now = last_refresh_time =>
              /\ last'.config_load = "skipped" /\ last'.settings_load = "skipped"
              /\ UNCHANGED <<config, settings>>
         /\ now > last_refresh_time =>
              /\ last'.config_load # "skipped" /\ last'.settings_load # "skipped"
              /\ settings' = settings_file.doc.m["Values"]]_vars

\* C18 witness: an access that reloaded nothing, at the clock reading at
\* which an earlier access had reloaded, while the settings document on disk
\* differs from the snapshot.
C18_Witness ==
    /\ refresh_interval = 0
    /\ last.op \in AccessOps
    /\ ~last.reloaded
    /\ now = last_refresh_time
    /\ now > StartTime
    /\ settings # settings_file.doc.m["Values"]

----------------------------------------------------------------------------
(* Claims about the retry policy of an execution *)

PolicyFields == {"max_attempts", "initial_delay", "max_delay", "exponential_base"}

\* The policy the store holds: the retry_policy section of its defaults
\* snapshot with the hardcoded value for every key it lacks.
StorePolicy(cfg) ==
    LET section == IF IsDict(cfg) /\ "azure" \in DOMAIN cfg.m
                      /\ IsDict(cfg.m["azure"])
                      /\ "retry_policy" \in DOMAIN cfg.m["azure"].m
                   THEN cfg.m["azure"].m["retry_policy"].m
                   ELSE ("max_attempts" :> Num(3)) @@ ("initial_delay" :> Num(1))
                        @@ ("max_delay" :> Num(30)) @@ ("exponential_base" :> Num(2))
        fallback == ("max_attempts" :> 3) @@ ("initial_delay" :> 1)
                    @@ ("max_delay" :> 30) @@ ("exponential_base" :> 2)
    IN [k \in PolicyFields |-> IF k \in DOMAIN section THEN section[k].v ELSE fallback[k]]

----------------------------------------------------------------------------
(* Claims about the first success *)

\* C20: when the operation first succeeds on invocation number k, with
\* k <= max_attempts, with_retry returns the result of that invocation
\* after exactly k invocations and k - 1 sleeps, and that execution invokes
\* the operation no more.
C20_FirstSuccess ==
    /\ [](retry.pc = "returned" =>
            LET k == Len(retry.calls)
            IN /\ k >= 1 /\ k <= retry.max_attempts
               /\ retry.calls[k] = "ok"
               /\ \A i \in 1..(k - 1) : retry.calls[i] \in Exceptions
               /\ retry.result = k
               /\ Len(retry.delays) = k - 1
               /\ retry.raised = "None")
    /\ [][retry.pc = "returned" =>
            \/ retry' = retry
            \/ retry'.pc = "loop" /\ retry'.calls = << >>]_vars

\* C20 witness: the operation failed twice and succeeded on the third and
\* last invocation the policy allows.
C20_Witness ==
    /\ retry.pc = "returned"
    /\ retry.max_attempts = 3
    /\ retry.calls = <<"ValueError", "ConnectionError", "ok">>
    /\ retry.result = 3
    /\ Len(retry.delays) = 2

----------------------------------------------------------------------------
(* Claims about the end of with_retry *)

\* C21: whatever policy the store returns, with_retry ends inside its loop:
\* it returns the operation's result or re-raises the exception of its last
\* invocation, and the raise statement after the loop is never reached.
C21_Original ==
    retry.pc \in {"returned", "raised"} =>
        /\ Len(retry.calls) >= 1
        /\ retry.pc = "raised" => retry.raised = retry.calls[Len(retry.calls)]

\* C22: every failure of the receive loop makes start_consumer sleep 5 s and
\* call itself one nesting level deeper, whatever the number of restarts so
\* far, so the depth is always one more than the number of restarts; the
\* thread ends only when the connection settings are missing, and then
\* without creating a client and without restarting.
C22_RestartsItself ==
    /\ [](supervisor.thread = "alive" => supervisor.depth = supervisor.restarts + 1)
    /\ [][/\ (supervisor.pc = "receiving" /\ supervisor' # supervisor
                  /\ supervisor'.since_check = supervisor.since_check) =>
                 /\ supervisor'.pc = "enter"
                 /\ supervisor'.thread = "alive"
                 /\ supervisor'.depth = supervisor.depth + 1
                 /\ supervisor'.restarts = supervisor.restarts + 1
                 /\ supervisor'.slept = supervisor.slept + 5
          /\ (supervisor.thread = "alive" /\ supervisor'.thread = "dead") =>
                 /\ supervisor.pc = "enter"
                 /\ ~consumer_connection(settings')
                 /\ supervisor'.clients = supervisor.clients
                 /\ supervisor'.restarts = supervisor.restarts
                 /\ supervisor'.slept = supervisor.slept]_vars

\* The receive loop has failed twice in a row: the third call of
\* start_consumer is running inside the first two.
C22_Witness ==
    /\ supervisor.thread = "alive"
    /\ supervisor.restarts = 2
    /\ supervisor.depth = 3
    /\ supervisor.slept = 10

\* C27: at most one consumer thread is alive at any time, the monitor starts
\* one only when the current one is no longer alive, and a dead consumer
\* thread has been dead for at most one 30-second monitor cycle.
C27_OneConsumerThread ==
    /\ [](/\ supervisor.alive <= 1
          /\ supervisor.alive = 1 <=> supervisor.thread = "alive"
          /\ supervisor.dead_for <= 30)
    /\ [][supervisor'.alive > supervisor.alive => supervisor.thread = "dead"]_vars

\* The monitor has replaced a consumer thread that had died.
C27_Witness ==
    /\ supervisor.thread = "alive"
    /\ supervisor.alive = 1
    /\ supervisor.started = 2
    /\ supervisor.since_check = 0

\* A resource of the first type cannot be deleted while one of the second
\* exists on it: a function app runs on its App Service plan.
DependsOn(dependent, resource) ==
    dependent.type = SITES /\ resource.type = SERVERFARMS

\* C23: the resources are processed in an order in which no resource is
\* deleted after a resource that depends on it was still waiting, that is,
\* every deleted dependent comes before the deleted resource it depends on.
C23_Original ==
    \A a \in 1..Len(deleter.processed) : \A b \in 1..Len(deleter.processed) :
        (/\ a < b
         /\ deleter.result[a] # "skipped"
         /\ deleter.result[b] # "skipped") =>
            ~DependsOn(deleter.resources_to_delete[deleter.processed[b]],
                       deleter.resources_to_delete[deleter.processed[a]])

C24_Original ==
    (last.op = "update_blob_container_name" /\ ~last.raised) =>
        /\ config_file.kind = "json"
        /\ has_resources(config_file.doc)
        /\ DictGet(config_file.doc.m["azure"].m["resources"], "blob_container", PyNone)
              = last.container_name
        /\ StoredValue(settings_file, CN) = <<last.container_name>>

\* C25: after manage.py start, a process has been spawned only if the
\* settings verify_config read hold all four required settings, non-empty;
\* when one is missing the command has exited with status 1 and spawned
\* nothing.
C25_VerifyBeforeStart ==
    manager.command = "start" =>
        LET complete == /\ IsDict(settings)
                        /\ \A k \in Range(required_settings) :
                              k \in DOMAIN settings.m /\ Truthy(settings.m[k])
        IN /\ manager.spawned # << >> => complete
           /\ ~complete => manager.pc = "exited" /\ manager.exit_status = 1
                           /\ manager.spawned = << >>
           /\ manager.pc = "running" => manager.spawned = <<"Producer.py", "Consumer.py">>

\* The start command has spawned both processes, from settings that were
\* re-read after an edit.
C25_Witness ==
    /\ manager.command = "start"
    /\ manager.pc = "running"
    /\ manager.spawned = <<"Producer.py", "Consumer.py">>
    /\ last_refresh_time > StartTime

\* C26: store_training_data makes at most 3 upload attempts and stops at the
\* first success; it sleeps 1 s after the first failure, 2 s after the
\* second and not after the third; after a third failure it logs the error
\* and returns without raising.
C26_ThreeAttempts ==
    /\ uploader.attempts <= 3
    /\ ~uploader.raised
    /\ uploader.attempts > 0 =>
          /\ \A k \in 1..(uploader.attempts - 1) : ~uploader.outcomes[k]
          /\ uploader.stored <=> uploader.outcomes[uploader.attempts]
          /\ uploader.attempts < 3 => uploader.stored
          /\ uploader.slept = SubSeq(<<1, 2>>, 1, uploader.attempts - 1)
          /\ (uploader.attempts = 3 /\ ~uploader.stored) => uploader.logged = "error"

\* Three uploads have failed: two sleeps, the error logged, nothing stored.
C26_Witness ==
    /\ uploader.attempts = 3
    /\ ~uploader.stored
    /\ uploader.slept = <<1, 2>>
    /\ uploader.logged = "error"

\* C28: every received event is reported in new_messages by a GET /messages
\* call that follows it, also when two events carry the same text: once a
\* call has answered, each event its filter read has been listed as new by
\* this call or by an earlier one.
C28_Original ==
    Responded =>
        \A i \in 1..Len(consumer.seen) : i \in consumer.reported_events

\* C29 as stated: an error answer (400 or 500) of POST /upload means that no
\* message of the request was sent.
C29_Original ==
    producer.status \in {400, 500} => producer.sent = << >>

\* The k-th image of the answered request does not open or is not sent.
Failing(k) ==
    ~Opens(producer.request.images[k]) \/ producer.fail_at = k

\* C29: an error answer given before the loop (400 for the body or the
\* labels, 500 for the connection settings) means nothing was sent; a
\* failure at the k-th image is answered 400 after the k-1 images before it
\* were sent, in order, and these stay sent.
C29_SentUpToFailure ==
    LET images == producer.request.images
        labels == producer.request.labels
        sent == producer.sent
        invalid == \/ ~producer.request.has_images
                   \/ images = << >>
                   \/ labels # << >> /\ Len(labels) # Len(images)
    IN /\ producer.status = 500 => sent = << >>
       /\ (producer.status = 400 /\ invalid) => sent = << >>
       /\ (producer.status = 400 /\ ~invalid) =>
             \E k \in 1..Len(images) :
                /\ Failing(k)
                /\ \A j \in 1..(k - 1) : ~Failing(j)
                /\ Len(sent) = k - 1
                /\ \A j \in 1..(k - 1) : sent[j].body.pixels = images[j].pixels

\* The second image of a request failed: the answer is 400 and the first
\* image is on the event hub.
C29_Witness ==
    /\ producer.status = 400
    /\ Len(producer.request.images) = 2
    /\ Len(producer.sent) = 1
    /\ producer.sent[1].body.pixels = producer.request.images[1].pixels
====
